---------------------------- MODULE Spec2Model ----------------------------
(***************************************************************************)
(* Model of the session lifecycle (backend/scoring_server.py) and of the   *)
(* Cortex protocol client (backend/cortex_client.py).                      *)
(*                                                                         *)
(* Two specifications share the module:                                    *)
(*   Spec     the AppState singleton, the HTTP handlers, the reset         *)
(*            procedures, the read loop of every CortexClient, the cadence *)
(*            worker (process_data_window) and the recording timer         *)
(*            (end_recording_session).  An RPC exchange (send a request,   *)
(*            wait for its reply) is one step whose outcome the remote end *)
(*            chooses.                                                     *)
(*   SpecRpc  one CortexClient's request layer in detail: _send_request,   *)
(*            _wait_for_response and the reply branch of _receive_loop.    *)
(*                                                                         *)
(* Scheduling.  scoring_server.py:6-9 calls eventlet.monkey_patch() before *)
(* anything else is imported and line 37 runs the server with              *)
(* async_mode='eventlet': every HTTP handler, threading.Thread and         *)
(* threading.Timer of the program is a green thread.  A green thread keeps *)
(* the processor until it blocks, so another thread runs only while this   *)
(* one is inside a blocking call: Thread.join, time.sleep, a socket        *)
(* operation of the websocket (create_connection, send, recv, close), the  *)
(* start of a thread (Thread.start waits until the new thread has run up   *)
(* to its own first blocking call), or the reading of a request / writing  *)
(* of a response.  socketio.emit puts the packet on the queue of each      *)
(* browser connection and does not block; neither do the logger calls.     *)
(* Every value of pc names a blocking call, and an action is the run of    *)
(* one thread from the return of one blocking call into the next.          *)
(***************************************************************************)
EXTENDS Integers, Sequences, FiniteSets, TLC

\* ------------------------------------------------------------------ bounds
\* HTTP requests that may be in progress at the same time.
NumHandlers == 2
\* CortexClient objects created over a run.
MaxClients == 2
\* Recordings (a cadence worker and a timer each) started over a run, a
\* fault of the remote end counting as one.
MaxRec == 2
\* Samples held by data_buffer; scores held by the Score history.
MaxBuf == 1
MaxScores == 1
\* Faults of the remote end over a run: a socket that cannot be opened, a
\* request answered by an error or not at all, a connection lost.
MaxFaults == 1
\* Requests made on the connection of SpecRpc and of SpecClient.
MaxReq == 3
\* Packets of the stream received and recordings started over a run of
\* SpecData.
MaxSamples == 2
MaxRuns == 1

Handlers == 1..NumHandlers
Clients  == 1..MaxClients
Recs     == 1..MaxRec

\* Thread identities: an HTTP handler, the read loop of client c, the timer
\* and the cadence worker of recording k.
HThreads  == {"h"} \X Handlers
RLThreads == {"rl"} \X Clients
TmThreads == {"tm"} \X Recs
Threads   == HThreads \cup RLThreads \cup TmThreads \cup ({"w"} \X Recs)
\* The threads that can run a reset procedure.
Callers   == HThreads \cup RLThreads \cup TmThreads

H(i)  == <<"h", i>>
RL(c) == <<"rl", c>>
Tm(k) == <<"tm", k>>
W(k)  == <<"w", k>>

VARIABLES
    \* --- AppState (scoring_server.py:40-50); 0 stands for None
    cortex_client,      \* client id or 0
    session_timer,      \* recording id of the Timer object or 0
    processing_thread,  \* recording id of the worker Thread object or 0
    stop_processing,    \* the Event's flag
    scores,             \* length of the Score history
    data_buffer,        \* length of the sample buffer
    is_recording,
    \* --- CortexClient objects (cortex_client.py:13-26), by client id
    nclients,           \* clients constructed so far
    ws,                 \* "none" | "open" | "closed"  (self.ws / ws.connected)
    session_id,         \* TRUE when self.session_id is not None
    on_disconnect_callback,
    data_stream_callback,
    sock_timeout,       \* TRUE once ws.settimeout(5) ran (subscribe done)
    dcalls,             \* times the read loop called on_disconnect_callback
    nfaults,            \* faults of the remote end so far
    \* --- threads
    nrec,               \* recordings started so far
    pc,                 \* the blocking call every thread is in
    ret,                \* where a reset procedure returns to
    loc,                \* handler local: the client (connect, select_headset)
                        \* or the recording (start_recording) in hand
    joining,            \* the worker a reset is blocked in join() on, or 0
    \* --- request layer of one client (SpecRpc)
    request_id_counter, \* self.request_id_counter
    responses,          \* self.responses, a set of entries [id, req]
    nreq,               \* requests made so far; request n is the n-th made
    spc,                \* the blocking call every caller is in
    sframe,             \* caller local: the frame built, [id, req]
    srid,               \* caller local: request_id
    wire,               \* the frames sent, in the order sent
    pending,            \* replies on their way to the client
    obtained,           \* the replies returned to callers, [want, got]
    \* --- data path in detail (SpecData)
    buffer,             \* state.data_buffer, the packets [id, kind] in order
    history,            \* state.scores, the scores in order
    buffer_lock,        \* state.buffer_lock: the thread that holds it or <<>>
    local_buffer,       \* worker local: local_buffer
    inhand,             \* read loop local: the packet given to the callback
    nsamp,              \* packets received so far; packet n is the n-th
    emitted,            \* the notices emitted, [ev, val], in order
    windows,            \* the windows reduced, [rec, smp, score], in order
    discarded,          \* ids of the packets power_data_callback discarded
    dropped,            \* ids of the packets reset_recording cleared
    \* --- one call of a function (SpecDemux, SpecScore)
    message,            \* _receive_loop local: the keys of the frame received
    handled,            \* what _receive_loop did with the frame
    average_ratio,      \* process_data_window local: average_ratio, <<n, d>>
    new_score           \* process_data_window local: score, -1 before the call

varsApp == <<cortex_client, session_timer, processing_thread, stop_processing,
             scores, data_buffer, is_recording>>
varsCli == <<nclients, ws, session_id, on_disconnect_callback,
             data_stream_callback, sock_timeout, dcalls, nfaults>>
varsThr == <<nrec, pc, ret, loc, joining>>
varsL   == <<varsApp, varsCli, varsThr>>
varsR   == <<request_id_counter, responses, nreq, spc, sframe, srid, wire,
             pending, obtained>>
varsD   == <<buffer, history, buffer_lock, local_buffer, inhand, nsamp,
             emitted, windows, discarded, dropped>>
varsP   == <<message, handled, average_ratio, new_score>>
vars    == <<varsL, varsR, varsD, varsP>>

\* ------------------------------------------------------------- helpers
\* Thread.is_alive of the worker / read loop / Timer objects
Alive(k) == pc[W(k)] \notin {"none", "done"}
ReadLoopAlive(c) == pc[RL(c)] \notin {"none", "done"}
TimerPending(k) == pc[Tm(k)] = "armed"

\* CortexClient.is_session_active, cortex_client.py:159-161
is_session_active(c) == session_id[c]

\* `self.processing_thread and self.processing_thread.is_alive()`
ProcessingThreadAlive == processing_thread # 0 /\ Alive(processing_thread)

\* A handler thread that has written its response is free for the next
\* request.  pc keeps the two rejections of start_recording, "ret_dnc" for
\* `Device not connected.` and "ret_already" for `A recording is already in
\* progress.`; after any other response it is "idle".
Free(t) == pc[t] \in {"idle", "ret_dnc", "ret_already"}

\* A request is accepted by the first free handler thread.
Accept(t) == Free(t) /\ \A i \in 1..(t[2] - 1) : ~Free(H(i))

\* --------------------------------------------------------------- Init
\* AppState.__init__ of the module-level singleton, no client constructed,
\* every handler idle, no other thread started.
InitL ==
    /\ cortex_client = 0
    /\ session_timer = 0
    /\ processing_thread = 0
    /\ stop_processing = FALSE
    /\ scores = 0
    /\ data_buffer = 0
    /\ is_recording = FALSE
    /\ nclients = 0
    /\ ws = [c \in Clients |-> "none"]
    /\ session_id = [c \in Clients |-> FALSE]
    /\ on_disconnect_callback = [c \in Clients |-> FALSE]
    /\ data_stream_callback = [c \in Clients |-> FALSE]
    /\ sock_timeout = [c \in Clients |-> FALSE]
    /\ dcalls = [c \in Clients |-> 0]
    /\ nfaults = 0
    /\ nrec = 0
    /\ pc = [t \in Threads |-> IF t \in HThreads THEN "idle" ELSE "none"]
    /\ ret = [t \in Callers |-> "none"]
    /\ loc = [t \in HThreads |-> 0]
    /\ joining = [t \in Callers |-> 0]

\* ------------------------------------------------- reset procedures
\* The reset procedures are written as the runs they consist of.  Each run
\* sets pc, ret and joining and the AppState fields; reset_connection also
\* sets ws, reset_recording also nrec and loc.

\* `if self.session_timer: self.session_timer.cancel()`: Timer.cancel stops a
\* timer that has not fired yet, whose thread then ends, and does nothing to
\* one that has.
CancelTimer(now) ==
    IF now /\ session_timer # 0 /\ TimerPending(session_timer)
    THEN [pc EXCEPT ![Tm(session_timer)] = "done"]
    ELSE pc

\* `self.__init__()`, scoring_server.py:41-50: every field back to its default
AppStateInit ==
    /\ cortex_client' = 0
    /\ session_timer' = 0
    /\ processing_thread' = 0
    /\ stop_processing' = FALSE
    /\ scores' = 0
    /\ data_buffer' = 0
    /\ is_recording' = FALSE

\* reset_connection, scoring_server.py:65-66, and the return to r.  `first`
\* tells that the run began at the entry of the procedure, so that lines
\* 58-60 (the cancel) belong to it; w is the state of the sockets at the
\* beginning of these lines.
RcFinish(t, r, first, w) ==
    /\ AppStateInit
    /\ pc' = [CancelTimer(first) EXCEPT ![t] = r]
    /\ ret' = [ret EXCEPT ![t] = "none"]
    /\ joining' = [joining EXCEPT ![t] = 0]
    /\ ws' = w

\* reset_connection, scoring_server.py:58-63 with CortexClient.disconnect,
\* cortex_client.py:164-167: the timer is cancelled; a connected socket is
\* closed, which blocks in the closing handshake.  `first` tells that the
\* run began at the entry of the procedure, so that line 54 belongs to it.
RcRest(t, r, first, w) ==
    IF cortex_client # 0 /\ w[cortex_client] = "open"
    THEN /\ ws' = [w EXCEPT ![cortex_client] = "closed"]
         /\ pc' = [CancelTimer(TRUE) EXCEPT ![t] = "rc_closing"]
         /\ ret' = [ret EXCEPT ![t] = r]
         /\ joining' = [joining EXCEPT ![t] = 0]
         /\ stop_processing' = (first \/ stop_processing)
         /\ UNCHANGED <<cortex_client, session_timer, processing_thread,
                        scores, data_buffer, is_recording>>
    ELSE RcFinish(t, r, TRUE, w)

\* AppState.reset_connection called by thread t which goes on at r,
\* scoring_server.py:52-57: the stop flag is set; a live worker is joined,
\* which blocks until that thread has ended.  w is the state of the sockets
\* as the caller leaves it.
reset_connection(t, r, w) ==
    IF ProcessingThreadAlive
    THEN /\ stop_processing' = TRUE
         /\ joining' = [joining EXCEPT ![t] = processing_thread]
         /\ pc' = [pc EXCEPT ![t] = "rc_join"]
         /\ ret' = [ret EXCEPT ![t] = r]
         /\ ws' = w
         /\ UNCHANGED <<cortex_client, session_timer, processing_thread,
                        scores, data_buffer, is_recording>>
    ELSE RcRest(t, r, TRUE, w)

\* processing_thread.join() returns
RcJoined(t) ==
    /\ pc[t] = "rc_join"
    /\ ~Alive(joining[t])
    /\ RcRest(t, ret[t], FALSE, ws)
    /\ UNCHANGED <<nclients, session_id, on_disconnect_callback,
                   data_stream_callback, sock_timeout, dcalls, nfaults, nrec,
                   loc>>
    /\ UNCHANGED <<varsR, varsD, varsP>>

\* ws.close() returns
RcClosed(t) ==
    /\ pc[t] = "rc_closing"
    /\ RcFinish(t, ret[t], FALSE, ws)
    /\ UNCHANGED <<nclients, session_id, on_disconnect_callback,
                   data_stream_callback, sock_timeout, dcalls, nfaults, nrec,
                   loc>>
    /\ UNCHANGED <<varsR, varsD, varsP>>

\* reset_recording as it would be if it also dropped the client
RrFinish_DropsClient(t, r) ==
    /\ scores' = 0
    /\ data_buffer' = 0
    /\ session_timer' = 0
    /\ stop_processing' = FALSE
    /\ ret' = [ret EXCEPT ![t] = "none"]
    /\ joining' = [joining EXCEPT ![t] = 0]
    /\ cortex_client' = 0
    /\ UNCHANGED ws
    /\ IF r = "sr_thread"
       THEN LET k == nrec + 1 IN
            /\ is_recording' = TRUE
            /\ nrec' = k
            /\ processing_thread' = k
            /\ loc' = [loc EXCEPT ![t] = k]
            /\ pc' = [CancelTimer(TRUE) EXCEPT ![t] = r, ![W(k)] = "w_sleep"]
       ELSE /\ is_recording' = FALSE
            /\ processing_thread' = 0
            /\ pc' = [CancelTimer(TRUE) EXCEPT ![t] = r]
            /\ UNCHANGED <<nrec, loc>>

\* reset_recording as it would be without line 81
RrFinish_KeepsScores(t, r) ==
    /\ UNCHANGED scores
    /\ data_buffer' = 0
    /\ session_timer' = 0
    /\ stop_processing' = FALSE
    /\ ret' = [ret EXCEPT ![t] = "none"]
    /\ joining' = [joining EXCEPT ![t] = 0]
    /\ UNCHANGED <<cortex_client, ws>>
    /\ IF r = "sr_thread"
       THEN LET k == nrec + 1 IN
            /\ is_recording' = TRUE
            /\ nrec' = k
            /\ processing_thread' = k
            /\ loc' = [loc EXCEPT ![t] = k]
            /\ pc' = [CancelTimer(TRUE) EXCEPT ![t] = r, ![W(k)] = "w_sleep"]
       ELSE /\ is_recording' = FALSE
            /\ processing_thread' = 0
            /\ pc' = [CancelTimer(TRUE) EXCEPT ![t] = r]
            /\ UNCHANGED <<nrec, loc>>

\* reset_recording, scoring_server.py:74-86, and what the caller does up to
\* its next blocking call.  start_recording (r = "sr_thread") goes on with
\* lines 216-221: the recording flag is set, the worker thread created and
\* started; the new thread runs line 112 and enters its sleep.
RrFinish(t, r) ==
    /\ scores' = 0
    /\ data_buffer' = 0
    /\ session_timer' = 0
    /\ stop_processing' = FALSE
    /\ ret' = [ret EXCEPT ![t] = "none"]
    /\ joining' = [joining EXCEPT ![t] = 0]
    /\ UNCHANGED <<cortex_client, ws>>
    /\ IF r = "sr_thread"
       THEN LET k == nrec + 1 IN
            /\ is_recording' = TRUE
            /\ nrec' = k
            /\ processing_thread' = k
            /\ loc' = [loc EXCEPT ![t] = k]
            /\ pc' = [CancelTimer(TRUE) EXCEPT ![t] = r, ![W(k)] = "w_sleep"]
       ELSE /\ is_recording' = FALSE
            /\ processing_thread' = 0
            /\ pc' = [CancelTimer(TRUE) EXCEPT ![t] = r]
            /\ UNCHANGED <<nrec, loc>>

\* AppState.reset_recording called by thread t which goes on at r,
\* scoring_server.py:68-73
reset_recording(t, r) ==
    IF ProcessingThreadAlive
    THEN /\ stop_processing' = TRUE
         /\ joining' = [joining EXCEPT ![t] = processing_thread]
         /\ pc' = [pc EXCEPT ![t] = "rr_join"]
         /\ ret' = [ret EXCEPT ![t] = r]
         /\ UNCHANGED <<cortex_client, session_timer, processing_thread,
                        scores, data_buffer, is_recording, ws, nrec, loc>>
    ELSE RrFinish(t, r)

\* processing_thread.join() returns
RrJoined(t) ==
    /\ pc[t] = "rr_join"
    /\ ~Alive(joining[t])
    /\ RrFinish(t, ret[t])
    /\ UNCHANGED <<nclients, session_id, on_disconnect_callback,
                   data_stream_callback, sock_timeout, dcalls, nfaults>>
    /\ UNCHANGED <<varsR, varsD, varsP>>

Reset(t) == RcJoined(t) \/ RcClosed(t) \/ RrJoined(t)

\* --------------------------------------------------------- RPC exchange
\* _send_request followed by _wait_for_response on client c, as the handshake
\* uses them: the send raises when the socket is absent or closed
\* (cortex_client.py:29-30); otherwise the wait returns a result (TRUE), which
\* needs the read loop to store the reply, or raises on an error reply or a
\* timeout (FALSE).
NoReply(c) == ws[c] # "open" \/ ~ReadLoopAlive(c)

\* A handler that will still start a worker
InStart(t) == pc[t] = "rr_join" /\ ret[t] = "sr_thread"

\* What a run has used of MaxRec
Used == nrec + Cardinality({u \in HThreads : InStart(u)}) + nfaults

\* The remote end may fail once more
MayFail == nfaults < MaxFaults /\ Used < MaxRec

RpcOutcomes(c) ==
    IF NoReply(c) THEN {FALSE}
    ELSE IF MayFail THEN {TRUE, FALSE} ELSE {TRUE}

\* The exchange on client c ended with outcome ok; a failure that is not
\* this program's doing is a fault of the remote end.
Exchange(c, ok) ==
    nfaults' = IF ~ok /\ ~NoReply(c) THEN nfaults + 1 ELSE nfaults

\* ------------------------------------------------------------ handlers
\* A handler that will still construct a client
InConnect(t) ==
    \/ pc[t] = "cn_create"
    \/ pc[t] \in {"rc_join", "rc_closing"} /\ ret[t] = "cn_create"

\* connect_and_query_headsets, scoring_server.py:153-160, up to the call of
\* websocket.create_connection (cortex_client.py:98)
HConnect(t) ==
    /\ Accept(t)
    /\ nclients + Cardinality({u \in HThreads : InConnect(u)}) < MaxClients
    /\ reset_connection(t, "cn_create", ws)
    /\ UNCHANGED <<nclients, session_id, on_disconnect_callback,
                   data_stream_callback, sock_timeout, dcalls, nfaults, nrec,
                   loc>>
    /\ UNCHANGED <<varsR, varsD, varsP>>

\* cortex_client.py:96-107: the credentials are rejected or the socket cannot
\* be opened (no client is left behind), or the socket is opened, the read
\* loop thread started (it enters recv) and requestAccess sent.
CnCreate(t) ==
    /\ pc[t] = "cn_create"
    /\ \/ /\ MayFail
          /\ nfaults' = nfaults + 1
          /\ pc' = [pc EXCEPT ![t] = "idle"]
          /\ UNCHANGED <<nclients, ws, session_id, on_disconnect_callback,
                         data_stream_callback, sock_timeout, dcalls, loc>>
       \/ LET c == nclients + 1 IN
          /\ nclients' = c
          /\ ws' = [ws EXCEPT ![c] = "open"]
          /\ pc' = [pc EXCEPT ![t] = "cn_access", ![RL(c)] = "rl_recv"]
          /\ loc' = [loc EXCEPT ![t] = c]
          /\ UNCHANGED <<session_id, on_disconnect_callback,
                         data_stream_callback, sock_timeout, dcalls, nfaults>>
    /\ UNCHANGED <<varsApp, nrec, ret, joining>>
    /\ UNCHANGED <<varsR, varsD, varsP>>

\* cortex_client.py:106-112, the outcome of requestAccess; queryHeadsets sent
CnAccess(t) ==
    /\ pc[t] = "cn_access"
    /\ \E ok \in RpcOutcomes(loc[t]) :
          /\ Exchange(loc[t], ok)
          /\ IF ok
             THEN pc' = [pc EXCEPT ![t] = "cn_query"] /\ UNCHANGED loc
             ELSE /\ pc' = [pc EXCEPT ![t] = "idle"]
                  /\ loc' = [loc EXCEPT ![t] = 0]
    /\ UNCHANGED <<varsApp, nclients, ws, session_id, on_disconnect_callback,
                   data_stream_callback, sock_timeout, dcalls, nrec, ret,
                   joining>>
    /\ UNCHANGED <<varsR, varsD, varsP>>

\* cortex_client.py:113-117, the outcome of queryHeadsets (an empty list
\* raises), then scoring_server.py:162-167, `state.cortex_client = client`
CnQuery(t) ==
    /\ pc[t] = "cn_query"
    /\ \E ok \in RpcOutcomes(loc[t]) :
          /\ Exchange(loc[t], ok)
          /\ cortex_client' = IF ok THEN loc[t] ELSE cortex_client
    /\ pc' = [pc EXCEPT ![t] = "idle"]
    /\ loc' = [loc EXCEPT ![t] = 0]
    /\ UNCHANGED <<session_timer, processing_thread, stop_processing, scores,
                   data_buffer, is_recording, nclients, ws, session_id,
                   on_disconnect_callback, data_stream_callback, sock_timeout,
                   dcalls, nrec, ret, joining>>
    /\ UNCHANGED <<varsR, varsD, varsP>>

\* select_headset, scoring_server.py:183-194: the guard of line 188, then
\* set_disconnect_callback on state.cortex_client and the call of its
\* connect_to_headset, which sends controlDevice (cortex_client.py:130).
HSelect(t) ==
    /\ Accept(t)
    /\ \E headsetId \in BOOLEAN :
          IF ~headsetId \/ cortex_client = 0
          THEN /\ pc' = [pc EXCEPT ![t] = "idle"]
               /\ UNCHANGED <<on_disconnect_callback, loc>>
          ELSE /\ on_disconnect_callback' =
                      [on_disconnect_callback EXCEPT ![cortex_client] = TRUE]
               /\ loc' = [loc EXCEPT ![t] = cortex_client]
               /\ pc' = [pc EXCEPT ![t] = "sh_control"]
    /\ UNCHANGED <<varsApp, nclients, ws, session_id, data_stream_callback,
                   sock_timeout, dcalls, nfaults, nrec, ret, joining>>
    /\ UNCHANGED <<varsR, varsD, varsP>>

\* An exception inside the try of select_headset, scoring_server.py:198-201
ShFail(t) ==
    /\ reset_connection(t, "idle", ws)
    /\ loc' = [loc EXCEPT ![t] = 0]

\* A step of the handshake that is still going on
ShGoOn(t, p) ==
    /\ pc' = [pc EXCEPT ![t] = p]
    /\ loc' = [loc EXCEPT ![t] = IF p = "idle" THEN 0 ELSE @]
    /\ UNCHANGED <<varsApp, ws, ret, joining>>

\* cortex_client.py:130-135, the outcome of controlDevice; authorize sent
ShControl(t) ==
    /\ pc[t] = "sh_control"
    /\ \E ok \in RpcOutcomes(loc[t]) :
          /\ Exchange(loc[t], ok)
          /\ IF ok THEN ShGoOn(t, "sh_auth") ELSE ShFail(t)
    /\ UNCHANGED <<nclients, session_id, on_disconnect_callback,
                   data_stream_callback, sock_timeout, dcalls, nrec>>
    /\ UNCHANGED <<varsR, varsD, varsP>>

\* cortex_client.py:136-140, the outcome of authorize; createSession sent
ShAuth(t) ==
    /\ pc[t] = "sh_auth"
    /\ \E ok \in RpcOutcomes(loc[t]) :
          /\ Exchange(loc[t], ok)
          /\ IF ok THEN ShGoOn(t, "sh_session") ELSE ShFail(t)
    /\ UNCHANGED <<nclients, session_id, on_disconnect_callback,
                   data_stream_callback, sock_timeout, dcalls, nrec>>
    /\ UNCHANGED <<varsR, varsD, varsP>>

\* cortex_client.py:141-145, the outcome of createSession (self.session_id is
\* set); subscribe sent
ShSession(t) ==
    /\ pc[t] = "sh_session"
    /\ \E ok \in RpcOutcomes(loc[t]) :
          /\ Exchange(loc[t], ok)
          /\ IF ok
             THEN /\ session_id' = [session_id EXCEPT ![loc[t]] = TRUE]
                  /\ ShGoOn(t, "sh_sub")
             ELSE ShFail(t) /\ UNCHANGED session_id
    /\ UNCHANGED <<nclients, on_disconnect_callback, data_stream_callback,
                   sock_timeout, dcalls, nrec>>
    /\ UNCHANGED <<varsR, varsD, varsP>>

\* cortex_client.py:146-151, the outcome of subscribe and ws.settimeout(5),
\* then scoring_server.py:195-197: state.cortex_client is read again for
\* set_data_callback, None raises AttributeError.
ShSub(t) ==
    /\ pc[t] = "sh_sub"
    /\ \E ok \in RpcOutcomes(loc[t]) :
          /\ Exchange(loc[t], ok)
          /\ IF ok
             THEN /\ sock_timeout' = [sock_timeout EXCEPT ![loc[t]] = TRUE]
                  /\ IF cortex_client = 0
                     THEN ShFail(t) /\ UNCHANGED data_stream_callback
                     ELSE /\ data_stream_callback' =
                               [data_stream_callback
                                   EXCEPT ![cortex_client] = TRUE]
                          /\ ShGoOn(t, "idle")
             ELSE /\ ShFail(t)
                  /\ UNCHANGED <<sock_timeout, data_stream_callback>>
    /\ UNCHANGED <<nclients, session_id, on_disconnect_callback, dcalls, nrec>>
    /\ UNCHANGED <<varsR, varsD, varsP>>

\* start_recording as it would be without the guard of lines 211-213
HStart_Unguarded(t) ==
    /\ Accept(t)
    /\ IF cortex_client = 0 \/ ~is_session_active(cortex_client)
       THEN /\ pc' = [pc EXCEPT ![t] = "ret_dnc"]
            /\ UNCHANGED <<varsApp, ws, ret, joining, nrec, loc>>
       ELSE /\ Used < MaxRec
            /\ reset_recording(t, "sr_thread")
    /\ UNCHANGED <<nclients, session_id, on_disconnect_callback,
                   data_stream_callback, sock_timeout, dcalls, nfaults>>
    /\ UNCHANGED <<varsR, varsD, varsP>>

\* start_recording, scoring_server.py:203-221: the two guards, then
\* reset_recording and the start of the worker thread.
HStart(t) ==
    /\ Accept(t)
    /\ IF cortex_client = 0 \/ ~is_session_active(cortex_client)
       THEN /\ pc' = [pc EXCEPT ![t] = "ret_dnc"]
            /\ UNCHANGED <<varsApp, ws, ret, joining, nrec, loc>>
       ELSE IF is_recording
       THEN /\ pc' = [pc EXCEPT ![t] = "ret_already"]
            /\ UNCHANGED <<varsApp, ws, ret, joining, nrec, loc>>
       ELSE /\ Used < MaxRec
            /\ reset_recording(t, "sr_thread")
    /\ UNCHANGED <<nclients, session_id, on_disconnect_callback,
                   data_stream_callback, sock_timeout, dcalls, nfaults>>
    /\ UNCHANGED <<varsR, varsD, varsP>>

\* lines 221-226: Thread.start returns; the timer is created and started
SrTimer(t) ==
    /\ pc[t] = "sr_thread"
    /\ session_timer' = loc[t]
    /\ pc' = [pc EXCEPT ![t] = "sr_timer", ![Tm(loc[t])] = "armed"]
    /\ UNCHANGED <<cortex_client, processing_thread, stop_processing, scores,
                   data_buffer, is_recording, varsCli, nrec, ret, loc, joining>>
    /\ UNCHANGED <<varsR, varsD, varsP>>

\* lines 228-230: Timer.start returns; recording_started is emitted
SrDone(t) ==
    /\ pc[t] = "sr_timer"
    /\ pc' = [pc EXCEPT ![t] = "idle"]
    /\ loc' = [loc EXCEPT ![t] = 0]
    /\ UNCHANGED <<varsApp, varsCli, nrec, ret, joining>>
    /\ UNCHANGED <<varsR, varsD, varsP>>

\* restart_recording, scoring_server.py:232-241
HCancel(t) ==
    /\ Accept(t)
    /\ IF is_recording
       THEN reset_recording(t, "idle")
       ELSE /\ pc' = [pc EXCEPT ![t] = "idle"]
            /\ UNCHANGED <<varsApp, ws, ret, joining, nrec, loc>>
    /\ UNCHANGED <<nclients, session_id, on_disconnect_callback,
                   data_stream_callback, sock_timeout, dcalls, nfaults>>
    /\ UNCHANGED <<varsR, varsD, varsP>>

\* disconnect_device, scoring_server.py:243-247, and
\* handle_socket_disconnect, lines 254-257
HDisconnect(t) ==
    /\ Accept(t)
    /\ reset_connection(t, "idle", ws)
    /\ UNCHANGED <<nclients, session_id, on_disconnect_callback,
                   data_stream_callback, sock_timeout, dcalls, nfaults, nrec,
                   loc>>
    /\ UNCHANGED <<varsR, varsD, varsP>>

Handler(t) ==
    \/ HConnect(t) \/ CnCreate(t) \/ CnAccess(t) \/ CnQuery(t)
    \/ HSelect(t) \/ ShControl(t) \/ ShAuth(t) \/ ShSession(t) \/ ShSub(t)
    \/ HStart(t) \/ SrTimer(t) \/ SrDone(t)
    \/ HCancel(t)
    \/ HDisconnect(t)

\* ------------------------------------------------------------ read loop
\* CortexClient._receive_loop, cortex_client.py:56-84, run by thread RL(c).
\* A frame that changes nothing (a reply, a warning, an unrecognised frame, a
\* stream frame that is discarded) leaves the loop in recv.

\* lines 59-68 with power_data_callback, scoring_server.py:96-104: a stream
\* frame, a data callback set, a recording in progress
RlFrame(c) ==
    /\ pc[RL(c)] = "rl_recv"
    /\ ws[c] = "open"
    /\ data_stream_callback[c]
    /\ is_recording
    /\ data_buffer < MaxBuf
    /\ data_buffer' = data_buffer + 1
    /\ UNCHANGED <<cortex_client, session_timer, processing_thread,
                   stop_processing, scores, is_recording, varsCli, varsThr>>
    /\ UNCHANGED <<varsR, varsD, varsP>>

\* recv (or the dispatch) raises: the socket was closed by disconnect(), or
\* the remote end closed the connection or sent what cannot be handled.
Raises(c) == ws[c] = "closed" \/ MayFail
Raised(c) == nfaults' = IF ws[c] = "open" THEN nfaults + 1 ELSE nfaults

\* The sockets after the exception: `closed` is
\* WebSocketConnectionClosedException, which leaves the socket closed; any
\* other exception (a read timeout, a frame that is not JSON) leaves it as it
\* is.
AfterRaise(c, closed) == IF closed THEN [ws EXCEPT ![c] = "closed"] ELSE ws

\* lines 75-84 without a callback set: the loop breaks.
RlExcept(c) ==
    /\ pc[RL(c)] = "rl_recv"
    /\ ~on_disconnect_callback[c]
    /\ Raises(c) /\ Raised(c)
    /\ \E closed \in BOOLEAN :
          /\ ws[c] = "closed" => closed
          /\ ws' = AfterRaise(c, closed)
    /\ pc' = [pc EXCEPT ![RL(c)] = "done"]
    /\ UNCHANGED <<varsApp, nclients, session_id, on_disconnect_callback,
                   data_stream_callback, sock_timeout, dcalls, nrec, ret, loc,
                   joining>>
    /\ UNCHANGED <<varsR, varsD, varsP>>

\* The except clauses as they would be if the first fell through into the
\* second: the callback runs twice
RlNotify_Twice(c) ==
    /\ pc[RL(c)] = "rl_recv"
    /\ on_disconnect_callback[c]
    /\ Raises(c) /\ Raised(c)
    /\ dcalls' = [dcalls EXCEPT ![c] = @ + 2]
    /\ \E closed \in BOOLEAN :
          /\ ws[c] = "closed" => closed
          /\ reset_connection(RL(c), "done", AfterRaise(c, closed))
    /\ UNCHANGED <<nclients, session_id, on_disconnect_callback,
                   data_stream_callback, sock_timeout, nrec, loc>>
    /\ UNCHANGED <<varsR, varsD, varsP>>

\* lines 75-84 with a callback set: force_disconnect_and_notify,
\* scoring_server.py:90-93, emits server_disconnected and calls
\* reset_connection; the loop breaks when that returns.
RlNotify(c) ==
    /\ pc[RL(c)] = "rl_recv"
    /\ on_disconnect_callback[c]
    /\ Raises(c) /\ Raised(c)
    /\ dcalls' = [dcalls EXCEPT ![c] = @ + 1]
    /\ \E closed \in BOOLEAN :
          /\ ws[c] = "closed" => closed
          /\ reset_connection(RL(c), "done", AfterRaise(c, closed))
    /\ UNCHANGED <<nclients, session_id, on_disconnect_callback,
                   data_stream_callback, sock_timeout, nrec, loc>>
    /\ UNCHANGED <<varsR, varsD, varsP>>

ReadLoop(c) == RlFrame(c) \/ RlExcept(c) \/ RlNotify(c)

\* ------------------------------------------------------- cadence worker
\* process_data_window, scoring_server.py:106-139, run by thread W(k).

\* line 112, `while not state.stop_processing.is_set()`, then the sleep
WLoop(k) == IF stop_processing THEN "done" ELSE "w_sleep"

\* lines 113-138, then line 112: the sleep is over.  An empty buffer
\* continues the loop; otherwise the buffer is taken and replaced, and either
\* no sample of the window is valid, which continues the loop, or the score
\* is appended to state.scores and new_score emitted.  (A pass that changes
\* nothing, an empty buffer with the flag not set, leaves the worker in its
\* sleep.)
WWake(k) ==
    /\ pc[W(k)] = "w_sleep"
    /\ pc' = [pc EXCEPT ![W(k)] = WLoop(k)]
    /\ IF data_buffer = 0
       THEN /\ stop_processing
            /\ UNCHANGED <<data_buffer, scores>>
       ELSE /\ data_buffer' = 0
            /\ \E valid \in BOOLEAN :
                  IF valid
                  THEN /\ scores < MaxScores
                       /\ scores' = scores + 1
                  ELSE UNCHANGED scores
    /\ UNCHANGED <<cortex_client, session_timer, processing_thread,
                   stop_processing, is_recording, varsCli, nrec, ret, loc,
                   joining>>
    /\ UNCHANGED <<varsR, varsD, varsP>>

Worker(k) == WWake(k)

\* ------------------------------------------------------ recording timer
\* end_recording_session, scoring_server.py:141-146, run by thread Tm(k).
\* The Timer fires: recording_ended is emitted with the mean of state.scores
\* and reset_recording called.
end_recording_session(k) ==
    /\ pc[Tm(k)] = "armed"
    /\ reset_recording(Tm(k), "done")
    /\ UNCHANGED <<nclients, session_id, on_disconnect_callback,
                   data_stream_callback, sock_timeout, dcalls, nfaults>>
    /\ UNCHANGED <<varsR, varsD, varsP>>

Timer(k) == end_recording_session(k)

\* ---------------------------------------------------------------- Spec
\* CortexClient.__init__, cortex_client.py:13-26, for the request layer: the
\* counter is 1 and the reply table empty; no caller is in a request.
InitR ==
    /\ request_id_counter = 1
    /\ responses = {}
    /\ nreq = 0
    /\ spc = [s \in Handlers |-> "idle"]
    /\ sframe = [s \in Handlers |-> [id |-> 0, req |-> 0]]
    /\ srid = [s \in Handlers |-> 0]
    /\ wire = <<>>
    /\ pending = {}
    /\ obtained = <<>>

\* The data path before any packet: both lists empty, the lock free
InitD ==
    /\ buffer = <<>>
    /\ history = <<>>
    /\ buffer_lock = <<>>
    /\ local_buffer = [k \in Recs |-> <<>>]
    /\ inhand = [c \in Clients |-> [id |-> 0, kind |-> "none"]]
    /\ nsamp = 0
    /\ emitted = <<>>
    /\ windows = <<>>
    /\ discarded = {}
    /\ dropped = {}

\* No frame received and no window reduced yet
InitP ==
    /\ message = {}
    /\ handled = "none"
    /\ average_ratio = <<1, 1>>
    /\ new_score = -1

Init == InitL /\ InitR /\ InitD /\ InitP

Run ==
    \/ \E t \in HThreads : Handler(t)
    \/ \E t \in Callers : Reset(t)
    \/ \E c \in Clients : ReadLoop(c)
    \/ \E k \in Recs : Worker(k)
    \/ \E k \in Recs : Timer(k)

Next == Run

Spec == Init /\ [][Next]_vars

\* -------------------------------------------------------------- SpecRpc
\* The request layer of one CortexClient whose socket is connected, used by
\* the handlers at the same time (select_headset runs connect_to_headset
\* while get_headsets runs query_headsets).  The remote end answers the n-th
\* request by a reply that carries the id of its frame; replies reach the
\* client in any order.

\* _send_request, cortex_client.py:28-38: the frame is built with the value
\* of the counter as its id and handed to ws.send, which may block.
SendRequest(s) ==
    /\ spc[s] = "idle"
    /\ nreq < MaxReq
    /\ nreq' = nreq + 1
    /\ sframe' = [sframe EXCEPT ![s] = [id |-> request_id_counter,
                                        req |-> nreq + 1]]
    /\ spc' = [spc EXCEPT ![s] = "send"]
    /\ UNCHANGED <<request_id_counter, responses, srid, wire, pending,
                   obtained>>
    /\ UNCHANGED <<varsL, varsD, varsP>>

\* _send_request, cortex_client.py:39-42: ws.send returns, the frame is sent;
\* request_id is read from the counter, the counter incremented, and
\* _wait_for_response entered (lines 44-46, 53).
SendReturn(s) ==
    /\ spc[s] = "send"
    /\ wire' = Append(wire, sframe[s])
    /\ pending' = pending \cup {sframe[s]}
    /\ srid' = [srid EXCEPT ![s] = request_id_counter]
    /\ request_id_counter' = request_id_counter + 1
    /\ spc' = [spc EXCEPT ![s] = "wait"]
    /\ UNCHANGED <<responses, nreq, sframe, obtained>>
    /\ UNCHANGED <<varsL, varsD, varsP>>

\* `self.responses[data['id']] = data`: the entry of that id is replaced
StoreReply(table, r) == {e \in table : e.id # r.id} \cup {r}

\* _receive_loop, cortex_client.py:59-63: a reply is received and stored
RlReply(r) ==
    /\ r \in pending
    /\ pending' = pending \ {r}
    /\ responses' = StoreReply(responses, r)
    /\ UNCHANGED <<request_id_counter, nreq, spc, sframe, srid, wire,
                   obtained>>
    /\ UNCHANGED <<varsL, varsD, varsP>>

\* _wait_for_response as it would be with `self.responses[request_id]` for
\* the pop of line 48
WaitFound_NoPop(s) ==
    /\ spc[s] = "wait"
    /\ \E e \in responses :
          /\ e.id = srid[s]
          /\ obtained' = Append(obtained, [want |-> sframe[s].req,
                                            got |-> e.req])
    /\ spc' = [spc EXCEPT ![s] = "idle"]
    /\ UNCHANGED <<request_id_counter, responses, nreq, sframe, srid, wire,
                   pending>>
    /\ UNCHANGED <<varsL, varsD, varsP>>

\* _wait_for_response, cortex_client.py:46-52: the id is in the table; the
\* entry is popped and returned
WaitFound(s) ==
    /\ spc[s] = "wait"
    /\ \E e \in responses :
          /\ e.id = srid[s]
          /\ responses' = responses \ {e}
          /\ obtained' = Append(obtained, [want |-> sframe[s].req,
                                            got |-> e.req])
    /\ spc' = [spc EXCEPT ![s] = "idle"]
    /\ UNCHANGED <<request_id_counter, nreq, sframe, srid, wire, pending>>
    /\ UNCHANGED <<varsL, varsD, varsP>>

\* _wait_for_response, cortex_client.py:45-46, 53-54: the caller wakes from
\* the sleep of line 53, the time is over and TimeoutError is raised; the
\* table is not looked up again
WaitTimeout(s) ==
    /\ spc[s] = "wait"
    /\ spc' = [spc EXCEPT ![s] = "idle"]
    /\ UNCHANGED <<request_id_counter, responses, nreq, sframe, srid, wire,
                   pending, obtained>>
    /\ UNCHANGED <<varsL, varsD, varsP>>

NextRpc ==
    \/ \E s \in Handlers : SendRequest(s)
    \/ \E s \in Handlers : SendReturn(s)
    \/ \E r \in pending : RlReply(r)
    \/ \E s \in Handlers : WaitFound(s)
    \/ \E s \in Handlers : WaitTimeout(s)

SpecRpc == Init /\ [][NextRpc]_vars

\* ------------------------------------------------------------- SpecData
\* The data path of a session that stays active: power_data_callback,
\* process_data_window, end_recording_session, start_recording and
\* restart_recording, with the contents of state.data_buffer and
\* state.scores, the buffer lock and the notices emitted.  The connection is
\* not touched: no handler of SpecData connects or disconnects and no read
\* loop fails.  Inside the regions guarded by state.buffer_lock every
\* statement is a step of its own, so that what holds here does not depend
\* on where a thread is suspended while it holds the lock.

\* eeg_processor.py:12-13
NumChannels == 14
BANDS == <<"theta", "alpha", "betaL", "betaH", "gamma">>
NumBands == Len(BANDS)

\* The 'pow' packets of the stream, by kind: the five band powers every
\* channel reports, and a packet one value short.
Kinds == {"low", "high", "flat", "short"}
PerChannel(kind) ==
    CASE kind = "high" -> <<5, 6, 1, 1, 7>>
      [] kind = "flat" -> <<5, 3, 0, 0, 7>>
      [] OTHER         -> <<5, 1, 1, 0, 7>>

\* data["pow"]: the flat list of the band powers of every channel in order
Pow(kind) ==
    LET n == IF kind = "short" THEN NumChannels * NumBands - 1
             ELSE NumChannels * NumBands
    IN  [i \in 1..n |-> PerChannel(kind)[((i - 1) % NumBands) + 1]]

\* No packet in hand
NoData == [id |-> 0, kind |-> "none"]

\* None
None == <<>>

RECURSIVE Gcd(_, _)
Gcd(a, b) == IF b = 0 THEN a ELSE Gcd(b, a % b)

\* The float n / d, kept as the fraction in lowest terms
Ratio(n, d) == LET g == Gcd(n, d) IN <<n \div g, d \div g>>

\* eeg_processor.py:51-57: the loop over the bands of one channel, from band
\* b on, the iterator standing at value i; <<total_alpha, total_beta>>
RECURSIVE BandTotals(_, _, _)
BandTotals(power_values, i, b) ==
    IF b > NumBands THEN <<0, 0>>
    ELSE LET rest == BandTotals(power_values, i + 1, b + 1)
         IN  IF BANDS[b] = "alpha"
             THEN <<rest[1] + power_values[i], rest[2]>>
             ELSE IF BANDS[b] \in {"betaL", "betaH"}
             THEN <<rest[1], rest[2] + power_values[i]>>
             ELSE rest

\* eeg_processor.py:50: the loop over the channels, from channel ch on
RECURSIVE Totals(_, _)
Totals(power_values, ch) ==
    IF ch > NumChannels THEN <<0, 0>>
    ELSE LET here == BandTotals(power_values, (ch - 1) * NumBands + 1, 1)
             rest == Totals(power_values, ch + 1)
         IN  <<here[1] + rest[1], here[2] + rest[2]>>

\* process_band_power_data as it would be with line 63 dividing the other
\* way round
process_band_power_data_inverted(data) ==
    LET power_values == Pow(data.kind) IN
    IF Len(power_values) # NumChannels * NumBands THEN None
    ELSE LET t == Totals(power_values, 1) IN
         IF t[2] = 0 THEN None ELSE Ratio(t[2], t[1])

\* process_band_power_data, eeg_processor.py:15-72: None for a list of the
\* wrong length or a total beta of zero, else total_alpha / total_beta
process_band_power_data(data) ==
    LET power_values == Pow(data.kind) IN
    IF Len(power_values) # NumChannels * NumBands THEN None
    ELSE LET t == Totals(power_values, 1) IN
         IF t[2] = 0 THEN None ELSE Ratio(t[1], t[2])

\* Ratios are kept in units of 1 / RatioScale where they are compared with
\* the real numbers of model_interface.py.
RatioScale == 10000

\* The scores 50 + 10 * log(ratio / baseline) that the table covers, rounded
\* down: max(0.01, ratio) gives -21.26 at the least (line 35), and every
\* score above 100 is clamped alike (line 54).
ScoreLo == -21
ScoreHi == 105

\* 10000 * POPULATION_BASELINE_ALPHA_BETA_RATIO * exp((s - 50) / 10) for
\* s = ScoreLo..ScoreHi, rounded up: the least ratio, in units of
\* 1 / RatioScale, whose score 50 + 10 * log(ratio / baseline) is s or more
\* (model_interface.py:13, 42-51).
ScoreThreshold == <<
    103, 114, 126, 139, 154, 170,
    188, 207, 229, 253, 280, 309,
    341, 377, 417, 461, 509, 563,
    622, 687, 759, 839, 927, 1025,
    1132, 1251, 1383, 1528, 1689, 1867,
    2063, 2280, 2519, 2784, 3077, 3401,
    3758, 4153, 4590, 5073, 5606, 6196,
    6847, 7568, 8363, 9243, 10215, 11289,
    12477, 13789, 15239, 16841, 18613, 20570,
    22733, 25124, 27766, 30687, 33914, 37481,
    41422, 45779, 50593, 55914, 61795, 68294,
    75476, 83414, 92186, 101882, 112597, 124438,
    137526, 151989, 167974, 185640, 205164, 226741,
    250588, 276942, 306069, 338258, 373833, 413149,
    456600, 504621, 557693, 616346, 681168, 752807,
    831980, 919480, 1016182, 1123055, 1241168, 1371703,
    1515966, 1675401, 1851605, 2046339, 2261555, 2499405,
    2762269, 3052779, 3373843, 3728673, 4120821, 4554212,
    5033182, 5562526, 6147542, 6794085, 7508625, 8298314,
    9171055, 10135584, 11201552, 12379630, 13681607, 15120514,
    16710752, 18468237, 20410559, 22557156, 24929512, 27551372,
    30448975
>>

\* `safe_ratio = max(0.01, current_alpha_beta_ratio)`, model_interface.py:35
safe_ratio(r) == IF r[1] * 100 < r[2] THEN <<1, 100>> ELSE r

\* `score = 50 + (log_diff * scale_factor)`, model_interface.py:49-51,
\* rounded down; scores of ScoreHi or more are given as ScoreHi
unclamped_score(r) ==
    ScoreLo - 1 +
    Cardinality({s \in DOMAIN ScoreThreshold :
                    (r[1] * RatioScale) \div r[2] >= ScoreThreshold[s]})

\* line 54 as it would be without the clamp
clamped_score_unbounded(score) == score

\* `clamped_score = max(0, min(100, score))`, model_interface.py:54, on the
\* score rounded down (the bounds are integers)
clamped_score(score) ==
    LET m == IF score > 100 THEN 100 ELSE score IN
    IF m < 0 THEN 0 ELSE m

\* get_score_from_ratio, model_interface.py:16-58, of the ratio r[1] / r[2];
\* int() of line 58 cuts the fraction off, which on a clamped score is
\* rounding down
get_score_from_ratio(r) == clamped_score(unclamped_score(safe_ratio(r)))

\* np.mean(valid_ratios), scoring_server.py:133, as a fraction
RECURSIVE SumRatios(_)
SumRatios(rs) ==
    IF rs = <<>> THEN <<0, 1>>
    ELSE LET s == SumRatios(Tail(rs))
         IN  Ratio(rs[1][1] * s[2] + s[1] * rs[1][2], rs[1][2] * s[2])

MeanRatio(rs) ==
    LET s == SumRatios(rs) IN Ratio(s[1], s[2] * Len(rs))

RECURSIVE SumSeq(_)
SumSeq(q) == IF q = <<>> THEN 0 ELSE q[1] + SumSeq(Tail(q))

\* The average as it would be with round() for int()
avg_score_rounded(q) ==
    IF q = <<>> THEN 0 ELSE (2 * SumSeq(q) + Len(q)) \div (2 * Len(q))

\* `int(np.mean(state.scores)) if state.scores else 0`, scoring_server.py:143
avg_score(q) == IF q = <<>> THEN 0 ELSE SumSeq(q) \div Len(q)

\* lines 125-126: the ratios of the packets of the window that have one
RECURSIVE valid_ratios(_)
valid_ratios(local) ==
    IF local = <<>> THEN <<>>
    ELSE LET r == process_band_power_data(local[1])
         IN  IF r = None THEN valid_ratios(Tail(local))
             ELSE <<r>> \o valid_ratios(Tail(local))

\* The ids of the packets in a sequence
Ids(q) == {q[i].id : i \in DOMAIN q}

\* What no step of the data path changes: the connection and its client
Conn == <<cortex_client, varsCli, varsR, varsP>>

\* data_buffer and scores are the lengths of the two lists
Lengths == data_buffer' = Len(buffer') /\ scores' = Len(history')

\* The lock as it would be if `with state.buffer_lock:` did not wait
LockFree_Ignored == TRUE

\* state.buffer_lock is free
LockFree == buffer_lock = <<>>

\* A session is active on client 1 and every client delivers the stream to
\* power_data_callback; no recording has been started.
InitData ==
    /\ cortex_client = 1
    /\ session_timer = 0
    /\ processing_thread = 0
    /\ stop_processing = FALSE
    /\ scores = 0
    /\ data_buffer = 0
    /\ is_recording = FALSE
    /\ nclients = MaxClients
    /\ ws = [c \in Clients |-> "open"]
    /\ session_id = [c \in Clients |-> TRUE]
    /\ on_disconnect_callback = [c \in Clients |-> TRUE]
    /\ data_stream_callback = [c \in Clients |-> TRUE]
    /\ sock_timeout = [c \in Clients |-> TRUE]
    /\ dcalls = [c \in Clients |-> 0]
    /\ nfaults = 0
    /\ nrec = 0
    /\ pc = [t \in Threads |->
               IF t \in HThreads THEN "idle"
               ELSE IF t \in RLThreads THEN "rl_recv" ELSE "none"]
    /\ ret = [t \in Callers |-> "none"]
    /\ loc = [t \in HThreads |-> 0]
    /\ joining = [t \in Callers |-> 0]
    /\ InitR
    /\ InitD
    /\ InitP

\* ---- power_data_callback, scoring_server.py:96-104, called by the read
\* loop of client c (cortex_client.py:66-69)

\* power_data_callback as it would be without the test of lines 98-100
PdCall_Unguarded(c) ==
    /\ pc[RL(c)] = "rl_recv"
    /\ ws[c] = "open" /\ data_stream_callback[c]
    /\ nsamp < MaxSamples
    /\ nsamp' = nsamp + 1
    /\ \E kind \in Kinds :
          /\ inhand' = [inhand EXCEPT
                           ![c] = [id |-> nsamp + 1, kind |-> kind]]
          /\ pc' = [pc EXCEPT ![RL(c)] = "pd_lock"]
          /\ UNCHANGED discarded
    /\ UNCHANGED <<session_timer, processing_thread, stop_processing, scores,
                   data_buffer, is_recording, nrec, ret, loc, joining>>
    /\ UNCHANGED <<buffer, history, buffer_lock, local_buffer, emitted,
                   windows, dropped>>
    /\ UNCHANGED Conn

\* lines 98-102: a packet arrives; it is discarded when no recording is
\* active, else the lock is asked for
PdCall(c) ==
    /\ pc[RL(c)] = "rl_recv"
    /\ ws[c] = "open" /\ data_stream_callback[c]
    /\ nsamp < MaxSamples
    /\ nsamp' = nsamp + 1
    /\ \E kind \in Kinds :
          IF ~is_recording
          THEN /\ discarded' = discarded \cup {nsamp + 1}
               /\ UNCHANGED <<inhand, pc>>
          ELSE /\ inhand' = [inhand EXCEPT
                                ![c] = [id |-> nsamp + 1, kind |-> kind]]
               /\ pc' = [pc EXCEPT ![RL(c)] = "pd_lock"]
               /\ UNCHANGED discarded
    /\ UNCHANGED <<session_timer, processing_thread, stop_processing, scores,
                   data_buffer, is_recording, nrec, ret, loc, joining>>
    /\ UNCHANGED <<buffer, history, buffer_lock, local_buffer, emitted,
                   windows, dropped>>
    /\ UNCHANGED Conn

\* line 102: the lock is acquired
PdAcquire(c) ==
    /\ pc[RL(c)] = "pd_lock"
    /\ LockFree
    /\ buffer_lock' = RL(c)
    /\ pc' = [pc EXCEPT ![RL(c)] = "pd_append"]
    /\ UNCHANGED <<session_timer, processing_thread, stop_processing, scores,
                   data_buffer, is_recording, nrec, ret, loc, joining>>
    /\ UNCHANGED <<buffer, history, local_buffer, inhand, nsamp, emitted,
                   windows, discarded, dropped>>
    /\ UNCHANGED Conn

\* lines 103-104: the packet is appended, the lock released
PdAppend(c) ==
    /\ pc[RL(c)] = "pd_append"
    /\ buffer' = Append(buffer, inhand[c])
    /\ inhand' = [inhand EXCEPT ![c] = NoData]
    /\ buffer_lock' = <<>>
    /\ pc' = [pc EXCEPT ![RL(c)] = "rl_recv"]
    /\ UNCHANGED history /\ Lengths
    /\ UNCHANGED <<session_timer, processing_thread, stop_processing,
                   is_recording, nrec, ret, loc, joining>>
    /\ UNCHANGED <<local_buffer, nsamp, emitted, windows, discarded, dropped>>
    /\ UNCHANGED Conn

\* ---- process_data_window, scoring_server.py:106-139, run by thread W(k)

\* line 113: the sleep is over
WTick(k) ==
    /\ pc[W(k)] = "w_sleep"
    /\ pc' = [pc EXCEPT ![W(k)] = "w_lock"]
    /\ UNCHANGED <<session_timer, processing_thread, stop_processing, scores,
                   data_buffer, is_recording, nrec, ret, loc, joining>>
    /\ UNCHANGED varsD
    /\ UNCHANGED Conn

\* lines 115-120: the lock is acquired; an empty buffer continues the loop
\* (line 112), else the buffer is copied
WAcquire(k) ==
    /\ pc[W(k)] = "w_lock"
    /\ LockFree
    /\ IF buffer = <<>>
       THEN /\ pc' = [pc EXCEPT ![W(k)] = WLoop(k)]
            /\ UNCHANGED <<buffer_lock, local_buffer>>
       ELSE /\ buffer_lock' = W(k)
            /\ local_buffer' = [local_buffer EXCEPT ![k] = buffer]
            /\ pc' = [pc EXCEPT ![W(k)] = "w_clear"]
    /\ UNCHANGED <<session_timer, processing_thread, stop_processing, scores,
                   data_buffer, is_recording, nrec, ret, loc, joining>>
    /\ UNCHANGED <<buffer, history, inhand, nsamp, emitted, windows,
                   discarded, dropped>>
    /\ UNCHANGED Conn

\* line 121: the buffer is replaced by an empty one, the lock released
WClear(k) ==
    /\ pc[W(k)] = "w_clear"
    /\ buffer' = <<>>
    /\ buffer_lock' = <<>>
    /\ pc' = [pc EXCEPT ![W(k)] = "w_reduce"]
    /\ UNCHANGED history /\ Lengths
    /\ UNCHANGED <<session_timer, processing_thread, stop_processing,
                   is_recording, nrec, ret, loc, joining>>
    /\ UNCHANGED <<local_buffer, inhand, nsamp, emitted, windows, discarded,
                   dropped>>
    /\ UNCHANGED Conn

\* The reduction as it would be if a packet without a ratio made the loop
\* continue: `if None in ratios: continue`
WReduce_AllOrNothing(k) ==
    /\ pc[W(k)] = "w_reduce"
    /\ LET ratios == valid_ratios(local_buffer[k]) IN
       IF Len(ratios) # Len(local_buffer[k])
       THEN /\ windows' = Append(windows, [rec |-> k, smp |-> local_buffer[k],
                                           score |-> -1])
            /\ UNCHANGED <<history, emitted>>
       ELSE LET score == get_score_from_ratio(MeanRatio(ratios)) IN
            /\ windows' = Append(windows, [rec |-> k, smp |-> local_buffer[k],
                                           score |-> score])
            /\ history' = Append(history, score)
            /\ emitted' = Append(emitted, [ev |-> "new_score", val |-> score])
    /\ local_buffer' = [local_buffer EXCEPT ![k] = <<>>]
    /\ pc' = [pc EXCEPT ![W(k)] = WLoop(k)]
    /\ UNCHANGED buffer /\ Lengths
    /\ UNCHANGED <<session_timer, processing_thread, stop_processing,
                   is_recording, nrec, ret, loc, joining>>
    /\ UNCHANGED <<buffer_lock, inhand, nsamp, discarded, dropped>>
    /\ UNCHANGED Conn

\* lines 123-138, then line 112: the window is reduced; without a valid
\* ratio the loop continues, else the score of the mean ratio is appended to
\* state.scores and new_score emitted
WReduce(k) ==
    /\ pc[W(k)] = "w_reduce"
    /\ LET ratios == valid_ratios(local_buffer[k]) IN
       IF ratios = <<>>
       THEN /\ windows' = Append(windows, [rec |-> k, smp |-> local_buffer[k],
                                           score |-> -1])
            /\ UNCHANGED <<history, emitted>>
       ELSE LET score == get_score_from_ratio(MeanRatio(ratios)) IN
            /\ windows' = Append(windows, [rec |-> k, smp |-> local_buffer[k],
                                           score |-> score])
            /\ history' = Append(history, score)
            /\ emitted' = Append(emitted, [ev |-> "new_score", val |-> score])
    /\ local_buffer' = [local_buffer EXCEPT ![k] = <<>>]
    /\ pc' = [pc EXCEPT ![W(k)] = WLoop(k)]
    /\ UNCHANGED buffer /\ Lengths
    /\ UNCHANGED <<session_timer, processing_thread, stop_processing,
                   is_recording, nrec, ret, loc, joining>>
    /\ UNCHANGED <<buffer_lock, inhand, nsamp, discarded, dropped>>
    /\ UNCHANGED Conn

\* ---- AppState.reset_recording, scoring_server.py:68-86, called by thread
\* t which goes on at r

\* lines 70-76: the stop flag is set; a live worker is joined; the timer is
\* cancelled and the lock asked for
RdEnter(t, r) ==
    /\ stop_processing' = TRUE
    /\ ret' = [ret EXCEPT ![t] = r]
    /\ IF ProcessingThreadAlive
       THEN /\ joining' = [joining EXCEPT ![t] = processing_thread]
            /\ pc' = [pc EXCEPT ![t] = "rr_join"]
       ELSE /\ pc' = [CancelTimer(TRUE) EXCEPT ![t] = "rr_lock"]
            /\ UNCHANGED joining

\* line 73: processing_thread.join() returns; lines 74-78
RdJoined(t) ==
    /\ pc[t] = "rr_join"
    /\ ret[t] \in {"sr_thread", "cancelled", "done"}
    /\ ~Alive(joining[t])
    /\ pc' = [CancelTimer(TRUE) EXCEPT ![t] = "rr_lock"]
    /\ joining' = [joining EXCEPT ![t] = 0]
    /\ UNCHANGED <<session_timer, processing_thread, stop_processing, scores,
                   data_buffer, is_recording, nrec, ret, loc>>
    /\ UNCHANGED varsD
    /\ UNCHANGED Conn

\* line 78: the lock is acquired
RdAcquire(t) ==
    /\ pc[t] = "rr_lock"
    /\ LockFree
    /\ buffer_lock' = t
    /\ pc' = [pc EXCEPT ![t] = "rr_clear"]
    /\ UNCHANGED <<session_timer, processing_thread, stop_processing, scores,
                   data_buffer, is_recording, nrec, ret, loc, joining>>
    /\ UNCHANGED <<buffer, history, local_buffer, inhand, nsamp, emitted,
                   windows, discarded, dropped>>
    /\ UNCHANGED Conn

\* lines 79-86: the buffer is replaced by an empty one, the lock released
\* and the fields of the recording cleared; then what the caller does up to
\* its next blocking call: start_recording lines 216-221 (the flag is set,
\* the worker created and started), restart_recording line 238 (the notice),
\* end_recording_session nothing more.
RdClear(t) ==
    /\ pc[t] = "rr_clear"
    /\ dropped' = dropped \cup Ids(buffer)
    /\ buffer' = <<>>
    /\ buffer_lock' = <<>>
    /\ history' = <<>>
    /\ Lengths
    /\ session_timer' = 0
    /\ stop_processing' = FALSE
    /\ ret' = [ret EXCEPT ![t] = "none"]
    /\ IF ret[t] = "sr_thread"
       THEN LET k == nrec + 1 IN
            /\ is_recording' = TRUE
            /\ nrec' = k
            /\ processing_thread' = k
            /\ loc' = [loc EXCEPT ![t] = k]
            /\ pc' = [pc EXCEPT ![t] = "sr_thread", ![W(k)] = "w_sleep"]
            /\ UNCHANGED emitted
       ELSE /\ is_recording' = FALSE
            /\ processing_thread' = 0
            /\ UNCHANGED <<nrec, loc>>
            /\ IF ret[t] = "cancelled"
               THEN /\ emitted' = Append(emitted, [ev |-> "recording_cancelled",
                                                   val |-> 0])
                    /\ pc' = [pc EXCEPT ![t] = "idle"]
               ELSE /\ pc' = [pc EXCEPT ![t] = "done"]
                    /\ UNCHANGED emitted
    /\ UNCHANGED <<joining, local_buffer, inhand, nsamp, windows, discarded>>
    /\ UNCHANGED Conn

\* ---- handlers and timer

\* start_recording, scoring_server.py:203-215
DStart(t) ==
    /\ Accept(t)
    /\ IF cortex_client = 0 \/ ~is_session_active(cortex_client)
       THEN /\ pc' = [pc EXCEPT ![t] = "ret_dnc"]
            /\ UNCHANGED <<stop_processing, ret, joining>>
       ELSE IF is_recording
       THEN /\ pc' = [pc EXCEPT ![t] = "ret_already"]
            /\ UNCHANGED <<stop_processing, ret, joining>>
       ELSE /\ nrec + Cardinality({u \in Callers : ret[u] = "sr_thread"})
                 < MaxRuns
            /\ RdEnter(t, "sr_thread")
    /\ UNCHANGED <<session_timer, processing_thread, scores, data_buffer,
                   is_recording, nrec, loc>>
    /\ UNCHANGED varsD
    /\ UNCHANGED Conn

\* lines 221-226: Thread.start returns; the timer is created and started
DStartTimer(t) ==
    /\ pc[t] = "sr_thread"
    /\ session_timer' = loc[t]
    /\ pc' = [pc EXCEPT ![t] = "sr_timer", ![Tm(loc[t])] = "armed"]
    /\ UNCHANGED <<processing_thread, stop_processing, scores, data_buffer,
                   is_recording, nrec, ret, loc, joining>>
    /\ UNCHANGED varsD
    /\ UNCHANGED Conn

\* lines 228-230: Timer.start returns; recording_started is emitted
DStartDone(t) ==
    /\ pc[t] = "sr_timer"
    /\ emitted' = Append(emitted, [ev |-> "recording_started", val |-> 0])
    /\ pc' = [pc EXCEPT ![t] = "idle"]
    /\ loc' = [loc EXCEPT ![t] = 0]
    /\ UNCHANGED <<session_timer, processing_thread, stop_processing, scores,
                   data_buffer, is_recording, nrec, ret, joining>>
    /\ UNCHANGED <<buffer, history, buffer_lock, local_buffer, inhand, nsamp,
                   windows, discarded, dropped>>
    /\ UNCHANGED Conn

\* restart_recording as it would be without the test of line 235
DCancel_Always(t) ==
    /\ Accept(t)
    /\ RdEnter(t, "cancelled")
    /\ UNCHANGED <<session_timer, processing_thread, scores, data_buffer,
                   is_recording, nrec, loc>>
    /\ UNCHANGED varsD
    /\ UNCHANGED Conn

\* restart_recording, scoring_server.py:232-241
DCancel(t) ==
    /\ Accept(t)
    /\ IF is_recording
       THEN RdEnter(t, "cancelled")
       ELSE /\ pc' = [pc EXCEPT ![t] = "idle"]
            /\ UNCHANGED <<stop_processing, ret, joining>>
    /\ UNCHANGED <<session_timer, processing_thread, scores, data_buffer,
                   is_recording, nrec, loc>>
    /\ UNCHANGED varsD
    /\ UNCHANGED Conn

\* end_recording_session, scoring_server.py:141-146: the Timer fires;
\* recording_ended is emitted with the average, reset_recording called
DTimer(k) ==
    /\ pc[Tm(k)] = "armed"
    /\ emitted' = Append(emitted, [ev |-> "recording_ended",
                                   val |-> avg_score(history)])
    /\ RdEnter(Tm(k), "done")
    /\ UNCHANGED <<session_timer, processing_thread, scores, data_buffer,
                   is_recording, nrec, loc>>
    /\ UNCHANGED <<buffer, history, buffer_lock, local_buffer, inhand, nsamp,
                   windows, discarded, dropped>>
    /\ UNCHANGED Conn

NextData ==
    \/ \E c \in Clients : PdCall(c) \/ PdAcquire(c) \/ PdAppend(c)
    \/ \E k \in Recs : WTick(k) \/ WAcquire(k) \/ WClear(k) \/ WReduce(k)
    \/ \E t \in Callers : RdJoined(t) \/ RdAcquire(t) \/ RdClear(t)
    \/ \E t \in HThreads : DStart(t) \/ DStartTimer(t) \/ DStartDone(t)
    \/ \E t \in HThreads : DCancel(t)
    \/ \E k \in Recs : DTimer(k)

SpecData == InitData /\ [][NextData]_vars

\* ---------------------------------------------------------------- claims
\* Steps of the lifecycle, recognised from the two states of a step.

\* reset_connection reinitialises the AppState that holds a connection
Reinitialises == cortex_client # 0 /\ cortex_client' = 0

\* handler t passes the two guards of start_recording
StartAccepted(t) ==
    /\ Free(t)
    /\ \/ pc'[t] = "sr_thread"
       \/ pc'[t] = "rr_join" /\ ret'[t] = "sr_thread"

\* handler t answers `A recording is already in progress.`
StartAlready(t) == pc[t] # "ret_already" /\ pc'[t] = "ret_already"

\* the read loop of client c leaves recv for good
RlLeaves(c) == pc[RL(c)] = "rl_recv" /\ pc'[RL(c)] # "rl_recv"

\* C1: when reset_connection reinitialises the shared fields, no cadence
\* worker is alive and the read loop of the connection it tears down has
\* ended.
C1_StopThenMutate ==
    [][Reinitialises =>
          /\ \A k \in Recs : ~Alive(k)
          /\ ~ReadLoopAlive(cortex_client)]_vars

\* C2: with the requests made one after another, at most one socket to the
\* device-control endpoint is open.
C2_OneOpenSocket ==
    pc[H(2)] = "idle" => Cardinality({c \in Clients : ws[c] = "open"}) <= 1

\* C3: at most one cadence worker is alive.
C3_OneWorker == Cardinality({k \in Recs : Alive(k)}) <= 1

\* C4: start_recording passes its guards only when the handshake of the
\* current connection has completed through subscribe.
C4_StartNeedsSubscribe ==
    [][\A t \in HThreads :
          StartAccepted(t) =>
             cortex_client # 0 /\ sock_timeout[cortex_client]]_vars

\* C5: start_recording does not pass its guards while a recording is in
\* progress, and the call that is answered `A recording is already in
\* progress.` finds a recording in progress and leaves the buffer, the Score
\* history, the worker, the timer and the flags as they are.
C5_AlreadyRecording ==
    [][\A t \in HThreads :
          /\ StartAccepted(t) => ~is_recording
          /\ StartAlready(t) =>
                /\ is_recording
                /\ UNCHANGED <<varsApp, nrec, joining>>
                /\ \A k \in Recs :
                      pc'[W(k)] = pc[W(k)] /\ pc'[Tm(k)] = pc[Tm(k)]]_vars

\* A start_recording is answered `A recording is already in progress.` while
\* the start_recording of the other handler is still running, the worker of
\* the recording alive.
C5_Witness ==
    /\ pc[H(2)] = "ret_already"
    /\ pc[H(1)] \in {"sr_thread", "sr_timer"}
    /\ is_recording /\ ProcessingThreadAlive

\* C9 as stated: a read loop that has ended has called the disconnect
\* notification exactly once.
C9_NotifiedExactlyOnce ==
    \A c \in Clients : pc[RL(c)] = "done" => dcalls[c] = 1

\* C9 amended: a read loop that leaves recv calls the disconnect notification
\* once if one is registered at that moment and not at all otherwise; it
\* calls it at no other time, never reads again, and its socket is never
\* opened again.
C9_NotifiedOnceIfRegistered ==
    [][\A c \in Clients :
          /\ RlLeaves(c) =>
                dcalls'[c] = dcalls[c]
                               + (IF on_disconnect_callback[c] THEN 1 ELSE 0)
          /\ ~RlLeaves(c) => dcalls'[c] = dcalls[c]
          /\ pc[RL(c)] \notin {"none", "rl_recv"} => pc'[RL(c)] # "rl_recv"
          /\ pc[RL(c)] = "done" => pc'[RL(c)] = "done"
          /\ ws[c] # "none" /\ ws[c] # "open" => ws'[c] # "open"]_vars

\* The read loop of a client has ended after one notification, and that of
\* another has ended without any.
C9_Witness ==
    \E c, d \in Clients :
       /\ pc[RL(c)] = "done" /\ dcalls[c] = 1
       /\ pc[RL(d)] = "done" /\ dcalls[d] = 0

\* C10: once the read loop of the connection of a recording has emitted
\* server_disconnected, no start_recording is answered otherwise than by
\* `Device not connected.`
C10_StartFailsAfterLoss ==
    [][\A t \in HThreads :
          (cortex_client # 0 /\ dcalls[cortex_client] >= 1 /\ is_recording)
             => ~StartAccepted(t) /\ ~StartAlready(t)]_vars

\* C6: every reply returned to a caller is the reply to the request that
\* caller made.
C6_OwnReply ==
    \A i \in DOMAIN obtained : obtained[i].got = obtained[i].want

\* C7: the ids of the frames sent start at 1 and increase strictly.
C7_IdsIncrease ==
    /\ wire # <<>> => wire[1].id = 1
    /\ \A i, j \in DOMAIN wire : i < j => wire[i].id < wire[j].id

\* C8: the reply table holds at most one entry per id; a reply is returned
\* to a caller once at most, and it is no longer in the table once returned.
C8_ConsumedOnce ==
    /\ \A e, f \in responses : e.id = f.id => e = f
    /\ \A i, j \in DOMAIN obtained :
          i # j => obtained[i].got # obtained[j].got
    /\ \A i \in DOMAIN obtained :
          \A e \in responses : e.req # obtained[i].got

\* Two replies have been returned while a third is in the table.
C8_Witness == Len(obtained) = 2 /\ responses # {}

\* ------------------------------------------------ claims on the data path
\* The packets of a window that have a ratio, and the totals of a packet of
\* a kind, read off the values every channel reports.
Usable(kind) == kind \in {"low", "high"}
AlphaOf(kind) == NumChannels * PerChannel(kind)[2]
BetaOf(kind) == NumChannels * (PerChannel(kind)[3] + PerChannel(kind)[4])

\* The usable packets of a window, in order
RECURSIVE UsableOf(_)
UsableOf(smp) ==
    IF smp = <<>> THEN <<>>
    ELSE IF Usable(smp[1].kind) THEN <<smp[1]>> \o UsableOf(Tail(smp))
    ELSE UsableOf(Tail(smp))

\* The mean over the packets of each packet's own ratio
MeanOfRatios(smp) ==
    MeanRatio([i \in DOMAIN smp |->
                  Ratio(AlphaOf(smp[i].kind), BetaOf(smp[i].kind))])

RECURSIVE SumOver(_, _)
SumOver(smp, i) ==
    IF i > Len(smp) THEN <<0, 0>>
    ELSE LET rest == SumOver(smp, i + 1)
         IN  <<AlphaOf(smp[i].kind) + rest[1], BetaOf(smp[i].kind) + rest[2]>>

\* The alpha summed over the packets divided by the beta summed over them
RatioOfSums(smp) == LET s == SumOver(smp, 1) IN Ratio(s[1], s[2])

\* How often packet i occurs in a sequence of packets
Occ(q, i) == Cardinality({j \in DOMAIN q : q[j].id = i})

\* Packet i is being taken over by a drain: copied, the buffer not yet
\* replaced
Copied(i) == \E k \in Recs : pc[W(k)] = "w_clear" /\ Occ(local_buffer[k], i) > 0

\* In how many places packet i is
Places(i) ==
    (IF i \in discarded THEN 1 ELSE 0)
    + (IF i \in dropped THEN 1 ELSE 0)
    + Cardinality({c \in Clients : inhand[c].id = i})
    + (IF Copied(i) THEN 0 ELSE Occ(buffer, i))
    + Cardinality({k \in Recs : Occ(local_buffer[k], i) > 0})
    + Cardinality({w \in DOMAIN windows : Occ(windows[w].smp, i) > 0})

\* C11: every packet received is in one place and one only: discarded by
\* the callback, in the hand of the callback, in the buffer, in the hand of
\* one drain, in one window, or cleared by reset_recording; no packet occurs
\* twice in a place; and a drain that has copied the buffer holds all of it
\* until it has replaced it.
C11_BufferSafety ==
    /\ \A i \in 1..nsamp : Places(i) = 1
    /\ \A i \in 1..nsamp :
          /\ Occ(buffer, i) <= 1
          /\ \A k \in Recs : Occ(local_buffer[k], i) <= 1
          /\ \A w \in DOMAIN windows : Occ(windows[w].smp, i) <= 1
    /\ \A k \in Recs : pc[W(k)] = "w_clear" => buffer = local_buffer[k]

\* Two packets were delivered, each to a window of its own.
C11_Witness ==
    /\ Len(windows) = 2
    /\ windows[1].smp # <<>> /\ windows[2].smp # <<>>

\* C12: a packet given to power_data_callback while no recording is active
\* changes neither the buffer nor anything else but the count of packets.
C12_IdleSampleIsNoOp ==
    [][(nsamp' # nsamp /\ ~is_recording) =>
          /\ nsamp' = nsamp + 1
          /\ discarded' = discarded \cup {nsamp + 1}
          /\ UNCHANGED <<buffer, data_buffer, buffer_lock, inhand, history,
                         emitted, windows, dropped, local_buffer>>
          /\ UNCHANGED varsL]_vars

\* A packet was delivered during the recording and the next one discarded.
C12_Witness == windows # <<>> /\ 2 \in discarded /\ buffer = <<>>

Notices(q, ev) == {i \in DOMAIN q : q[i].ev = ev}

\* C14: a window has a score exactly when one of its packets is usable, and
\* then the score of the mean ratio of its usable packets; as many new_score
\* notices are emitted as windows have a score; and a tick that finds the
\* buffer empty or a window without a usable packet changes neither the
\* Score history nor the notices and leaves the worker in its loop.
C14_OneScorePerWindow ==
    /\ [](/\ \A w \in DOMAIN windows :
               IF UsableOf(windows[w].smp) = <<>>
               THEN windows[w].score = -1
               ELSE windows[w].score =
                       get_score_from_ratio(MeanOfRatios(UsableOf(windows[w].smp)))
          /\ Cardinality(Notices(emitted, "new_score"))
                = Cardinality({w \in DOMAIN windows : windows[w].score # -1}))
    /\ [][\A k \in Recs :
            /\ (pc[W(k)] = "w_reduce" /\ pc'[W(k)] # "w_reduce") =>
                  /\ Len(windows') = Len(windows) + 1
                  /\ IF UsableOf(local_buffer[k]) = <<>>
                     THEN /\ UNCHANGED <<history, emitted>>
                          /\ pc'[W(k)] = WLoop(k)
                     ELSE /\ Len(history') = Len(history) + 1
                          /\ Len(emitted') = Len(emitted) + 1
            /\ (pc[W(k)] = "w_lock" /\ pc'[W(k)] # "w_lock" /\ buffer = <<>>)
                  => /\ UNCHANGED <<history, emitted, windows>>
                     /\ pc'[W(k)] = WLoop(k)]_vars

\* A window of a malformed packet and a usable one has the score of the
\* usable one.
C14_Witness ==
    \E w \in DOMAIN windows :
       /\ Len(windows[w].smp) = 2
       /\ {windows[w].smp[1].kind, windows[w].smp[2].kind} = {"short", "high"}
       /\ windows[w].score = get_score_from_ratio(<<3, 1>>)

\* ------------------------------------------- claims on the two resets
\* Thread t enters or goes on with AppState.reset_recording in this step
ResetRecordingStep(t) ==
    \/ pc[t] # "rr_join" /\ pc'[t] = "rr_join"
    \/ pc[t] = "rr_join" /\ pc'[t] # "rr_join"
    \/ t \in HThreads /\ Free(t) /\ pc'[t] = "sr_thread"
    \/ /\ t \in HThreads /\ Free(t) /\ is_recording /\ ~is_recording'
       /\ HCancel(t)
    \/ \E k \in Recs :
          /\ t = Tm(k) /\ pc[t] = "armed" /\ pc'[t] = "done"
          /\ Timer(k)

\* reset_recording, called by the cancel handler or the timer, returns to
\* thread t in this step
ResetRecordingReturns(t) ==
    \/ pc[t] = "rr_join" /\ ret[t] # "sr_thread" /\ pc'[t] # "rr_join"
    \/ /\ t \in HThreads /\ Free(t) /\ is_recording /\ ~is_recording'
       /\ ~ProcessingThreadAlive
       /\ HCancel(t)
    \/ \E k \in Recs :
          /\ t = Tm(k) /\ pc[t] = "armed" /\ pc'[t] = "done"
          /\ ~ProcessingThreadAlive
          /\ Timer(k)

\* The guards of start_recording, scoring_server.py:205-211, pass
StartGuardsPass ==
    /\ cortex_client # 0
    /\ is_session_active(cortex_client)
    /\ ~is_recording

\* C15: no step of reset_recording changes the client reference, the
\* socket, the session id, the subscription, the callbacks or the read loop
\* of any client; and when it returns to the cancel handler or the timer on
\* a session that is active, the guards of start_recording pass.
C15_ResetRecordingKeepsConnection ==
    [][\A t \in HThreads \cup TmThreads :
          ResetRecordingStep(t) =>
             /\ UNCHANGED <<cortex_client, ws, session_id, sock_timeout,
                            on_disconnect_callback, data_stream_callback,
                            nclients, dcalls>>
             /\ \A c \in Clients : pc'[RL(c)] = pc[RL(c)]
             /\ (/\ ResetRecordingReturns(t)
                 /\ cortex_client # 0
                 /\ is_session_active(cortex_client)) => StartGuardsPass']_vars

\* A second recording runs on the client of the first: the handshake was
\* done once.
C15_Witness ==
    /\ nrec = 2
    /\ nclients = 1
    /\ cortex_client = 1
    /\ is_recording
    /\ Alive(2)

\* The fields reset_recording clears have their zero values
ZeroRec ==
    /\ scores = 0
    /\ data_buffer = 0
    /\ ~is_recording
    /\ session_timer = 0
    /\ processing_thread = 0
    /\ ~stop_processing

\* C16: when reset_recording returns to the cancel handler or the timer,
\* the Score history and the buffer are empty, the recording flag false, the
\* timer and worker fields None and the stop flag cleared, the worker it
\* joined has ended; and a return that finds the fields so leaves every
\* field of AppState as it is.
C16_ResetRecordingIdempotent ==
    [][\A t \in HThreads \cup TmThreads :
          ResetRecordingReturns(t) =>
             /\ ZeroRec'
             /\ \A k \in Recs : joining[t] = k => pc'[W(k)] = "done"
             /\ (ZeroRec => UNCHANGED varsApp)]_vars

\* Two threads called reset_recording on the connection in use (the timer
\* and the cancel handler, or two cancel handlers); the first call has
\* returned, which cleared the recording flag, and the second is about to
\* return on the cleared fields.
C16_Witness ==
    \E t \in HThreads \cup TmThreads :
       /\ pc[t] = "rr_join"
       /\ ret[t] # "sr_thread"
       /\ ~Alive(joining[t])
       /\ ZeroRec
       /\ nrec >= 1
       /\ nclients = 1
       /\ cortex_client = 1

\* The blocking calls of reset_connection
RcCalls == {"rc_join", "rc_closing"}

\* reset_connection returns to thread t in this step: from its last
\* blocking call, or at once when the disconnect handler calls it and
\* nothing blocks
ResetConnectionReturns(t) ==
    \/ pc[t] \in RcCalls /\ pc'[t] \notin RcCalls
    \/ /\ t \in HThreads /\ Free(t) /\ pc'[t] = "idle"
       /\ HDisconnect(t)

\* No connection, no recording: the state AppState.__init__ gives, with no
\* worker or timer left
IdleState ==
    /\ cortex_client = 0
    /\ ZeroRec
    /\ \A k \in Recs : ~Alive(k) /\ ~TimerPending(k)

\* C17: when reset_connection returns there is no client, the socket of the
\* client there was is not open, the buffer and the Score history are
\* empty, the recording flag is false, and no worker is alive and no timer
\* armed; a call in that state changes no field and no socket.
C17_ResetConnectionToIdle ==
    [][\A t \in Callers :
          ResetConnectionReturns(t) =>
             /\ IdleState'
             /\ \A c \in Clients : cortex_client = c => ws'[c] # "open"
             /\ (IdleState => UNCHANGED <<varsApp, ws>>)]_vars

\* ------------------------------------ claims on the end of a recording
\* The Timer of recording k fires in this step: end_recording_session runs
\* up to the first blocking call of reset_recording
TimerFires(k) ==
    pc[Tm(k)] = "armed" /\ pc'[Tm(k)] \in {"rr_join", "rr_lock"}

\* reset_recording returns to thread t in this step
ResetDone(t) == pc[t] = "rr_clear" /\ pc'[t] # "rr_clear"

\* What reset_recording leaves when it returns to a caller other than
\* start_recording, on the connection there was
AfterReset ==
    /\ ~is_recording'
    /\ history' = <<>> /\ scores' = 0
    /\ buffer' = <<>> /\ data_buffer' = 0
    /\ session_timer' = 0
    /\ processing_thread' = 0
    /\ ~stop_processing'
    /\ cortex_client' = cortex_client

\* The last notice emitted
Last(q) == q[Len(q)]

\* The step that fires the timer emits one notice, recording_ended, and
\* calls reset_recording; the return of that call leaves no recording and
\* the session active, and emits nothing.
EndOfRecording(k) ==
    /\ TimerFires(k) =>
          /\ Len(emitted') = Len(emitted) + 1
          /\ Last(emitted').ev = "recording_ended"
          /\ ret'[Tm(k)] = "done"
          /\ stop_processing'
    /\ (ResetDone(Tm(k)) /\ cortex_client # 0
           /\ is_session_active(cortex_client)) =>
          /\ AfterReset
          /\ is_session_active(cortex_client)'
          /\ pc'[Tm(k)] = "done"
          /\ UNCHANGED emitted

\* C18 as stated: the notice of the step that fires the timer carries the
\* arithmetic mean of state.scores, 0 for an empty list; then reset_recording
\* runs and leaves the session active and no recording.
C18_EndedCarriesMean ==
    [][\A k \in Recs :
          /\ EndOfRecording(k)
          /\ TimerFires(k) =>
                IF history = <<>>
                THEN Last(emitted').val = 0
                ELSE Last(emitted').val * Len(history) = SumSeq(history)]_vars

\* C18: the notice of the step that fires the timer carries the arithmetic
\* mean of state.scores with its fraction cut off, 0 for an empty list; then
\* reset_recording runs and leaves the session active and no recording.
C18_EndedCarriesTruncatedMean ==
    [][\A k \in Recs :
          /\ EndOfRecording(k)
          /\ TimerFires(k) =>
                IF history = <<>>
                THEN Last(emitted').val = 0
                ELSE Last(emitted').val = SumSeq(history) \div Len(history)]_vars

\* A recording of two windows with the scores 24 and 35 has ended by its
\* timer, not cancelled: the notice carries 29, the session is active.
C18_Witness ==
    /\ pc[Tm(1)] = "done"
    /\ ~is_recording
    /\ cortex_client # 0 /\ is_session_active(cortex_client)
    /\ Notices(emitted, "recording_cancelled") = {}
    /\ \E i \in Notices(emitted, "recording_ended") : emitted[i].val = 29
    /\ Cardinality(Notices(emitted, "new_score")) = 2

\* ------------------------------------------------ claims on the cancel
\* restart_recording, run by handler t, passes the test of line 235 in this
\* step
CancelAccepted(t) ==
    Free(t) /\ ret[t] # "cancelled" /\ ret'[t] = "cancelled"

\* The number of recording_cancelled notices emitted
Cancelled(q) == Cardinality(Notices(q, "recording_cancelled"))

\* C19: restart_recording calls reset_recording only when a recording is in
\* progress; the return of that call clears the recording and emits
\* recording_cancelled, one notice; no other step emits that notice; and a
\* restart_recording that finds no recording changes no field, no list and
\* emits nothing.
C19_CancelOnceOrNoOp ==
    [][/\ \A t \in HThreads :
            /\ CancelAccepted(t) =>
                  /\ is_recording
                  /\ stop_processing'
                  /\ pc'[t] \in {"rr_join", "rr_lock"}
                  /\ UNCHANGED emitted
            /\ (ResetDone(t) /\ ret[t] = "cancelled") =>
                  /\ AfterReset
                  /\ emitted' = Append(emitted, [ev |-> "recording_cancelled",
                                                 val |-> 0])
                  /\ pc'[t] = "idle"
            /\ (Free(t) /\ ~is_recording /\ DCancel(t)) =>
                  /\ UNCHANGED <<varsApp, varsCli, varsD, nrec, ret, joining>>
                  /\ \A u \in Threads \ {t} : pc'[u] = pc[u]
       /\ Cancelled(emitted') = Cancelled(emitted) +
             Cardinality({t \in HThreads :
                             ResetDone(t) /\ ret[t] = "cancelled"})]_vars

\* A recording that had a packet in its buffer was cancelled: one
\* recording_cancelled notice, no recording, the handlers idle.
C19_Witness ==
    /\ Cancelled(emitted) = 1
    /\ ~is_recording
    /\ history = <<>> /\ buffer = <<>>
    /\ dropped # {}
    /\ \A t \in HThreads : pc[t] = "idle"

\* ------------------------------------------- claims on the reply table
\* C20: every entry of the reply table carries the id of a request that is
\* outstanding: its frame has been sent and its caller is still in
\* _wait_for_response.
C20_OnlyOutstanding ==
    \A e \in responses :
        \E s \in Handlers : spc[s] = "wait" /\ sframe[s].id = e.id

\* ------------------------------------------------------------ SpecDemux
\* The dispatch of one frame by CortexClient._receive_loop,
\* cortex_client.py:60-74.  A frame is the set of the keys of its JSON
\* object; the remote end sends any.

\* `['eeg', 'pow', 'mot', 'dev', 'eq', 'met']`, cortex_client.py:68
StreamKeys == {"eeg", "pow", "mot", "dev", "eq", "met"}

\* The frames: sets of keys, those the loop tests and one it does not
Frames == SUBSET ({"id", "sid", "warning", "time"} \cup StreamKeys)

\* the dispatch as it would be without the test of line 68
Dispatch_NoAllowList(data, callback) ==
    IF "id" \in data THEN "stored"
    ELSE IF "sid" \in data /\ callback THEN "callback"
    ELSE IF "warning" \in data THEN "warning"
    ELSE "unhandled"

\* lines 63-74: what the loop does with the frame data while
\* self.data_stream_callback is set (callback) or None
Dispatch(data, callback) ==
    IF "id" \in data THEN "stored"
    ELSE IF "sid" \in data /\ callback
         THEN IF data \cap StreamKeys # {} THEN "callback" ELSE "dropped"
    ELSE IF "warning" \in data THEN "warning"
    ELSE "unhandled"

\* A client whose socket is connected and whose read loop is in recv; no
\* data callback is set yet.
InitConnected ==
    /\ cortex_client = 0
    /\ session_timer = 0
    /\ processing_thread = 0
    /\ stop_processing = FALSE
    /\ scores = 0
    /\ data_buffer = 0
    /\ is_recording = FALSE
    /\ nclients = 1
    /\ ws = [c \in Clients |-> IF c = 1 THEN "open" ELSE "none"]
    /\ session_id = [c \in Clients |-> FALSE]
    /\ on_disconnect_callback = [c \in Clients |-> FALSE]
    /\ data_stream_callback = [c \in Clients |-> FALSE]
    /\ sock_timeout = [c \in Clients |-> FALSE]
    /\ dcalls = [c \in Clients |-> 0]
    /\ nfaults = 0
    /\ nrec = 0
    /\ pc = [t \in Threads |->
               IF t \in HThreads THEN "idle"
               ELSE IF t = RL(1) THEN "rl_recv" ELSE "none"]
    /\ ret = [t \in Callers |-> "none"]
    /\ loc = [t \in HThreads |-> 0]
    /\ joining = [t \in Callers |-> 0]
    /\ InitR
    /\ InitD
    /\ InitP

\* lines 59-74: recv returns the frame data and the loop dispatches it
RlDispatch(data) ==
    /\ pc[RL(1)] = "rl_recv"
    /\ ws[1] = "open"
    /\ message' = data
    /\ handled' = Dispatch(data, data_stream_callback[1])
    /\ UNCHANGED <<average_ratio, new_score>>
    /\ UNCHANGED <<varsL, varsR, varsD>>

\* CortexClient.set_data_callback, cortex_client.py:153-154, called by
\* select_headset, scoring_server.py:195
set_data_callback ==
    /\ ~data_stream_callback[1]
    /\ data_stream_callback' = [data_stream_callback EXCEPT ![1] = TRUE]
    /\ UNCHANGED <<varsApp, nclients, ws, session_id, on_disconnect_callback,
                   sock_timeout, dcalls, nfaults, varsThr>>
    /\ UNCHANGED <<varsR, varsD, varsP>>

NextDemux ==
    \/ \E data \in Frames : RlDispatch(data)
    \/ set_data_callback

SpecDemux == InitConnected /\ [][NextDemux]_vars

\* ---------------------------------------------- claims on the dispatch
\* A frame that is no reply, has a session id and a field of the list
Telemetry(data) ==
    /\ "id" \notin data
    /\ "sid" \in data
    /\ data \cap StreamKeys # {}

\* C21 as stated: the read loop calls the data callback for a frame exactly
\* when the frame has no id, has a sid and has a key of the list.
C21_CallbackIffTelemetry ==
    [][UNCHANGED data_stream_callback =>
          (handled' = "callback" <=> Telemetry(message'))]_vars

\* C21: the read loop calls the data callback for a frame exactly when a
\* data callback is set and the frame has no id, has a sid and has a key of
\* the list; a frame with an id is stored and nothing else.
C21_CallbackIffTelemetryAndSet ==
    [][UNCHANGED data_stream_callback =>
          /\ handled' = "callback" <=>
                (Telemetry(message') /\ data_stream_callback[1])
          /\ handled' = "stored" <=> "id" \in message']_vars

\* A stream frame was given to the callback.
C21_Witness ==
    /\ message = {"sid", "pow", "time"}
    /\ handled = "callback"
    /\ data_stream_callback[1]

\* -------------------------------------------- claims on the handshake
\* The positions of a handler inside connect_to_headset: the reply to
\* controlDevice, authorize, createSession, subscribe is awaited
ShCalls == <<"sh_control", "sh_auth", "sh_session", "sh_sub">>

\* Handler t sends the n-th request of connect_to_headset in this step
ShSends(t, n) == pc[t] # ShCalls[n] /\ pc'[t] = ShCalls[n]

\* C22: controlDevice is sent on a connection on which no controlDevice was
\* sent before (no other handler is inside connect_to_headset on it, no
\* session was created and no subscribe answered on it); authorize,
\* createSession and subscribe are each sent by the handler whose previous
\* request of the sequence has just succeeded.
C22_HandshakeOnceInOrder ==
    [][\A t \in HThreads :
          /\ ShSends(t, 1) =>
                /\ Free(t)
                /\ \A c \in Clients :
                      loc'[t] = c =>
                         /\ ~session_id[c]
                         /\ ~sock_timeout[c]
                         /\ \A u \in HThreads \ {t} :
                               ~(/\ loc[u] = c
                                 /\ \E n \in DOMAIN ShCalls :
                                       pc[u] = ShCalls[n])
          /\ \A n \in 2..Len(ShCalls) :
                ShSends(t, n) => pc[t] = ShCalls[n - 1]]_vars

\* ----------------------------------------------------------- SpecClient
\* The request layer of one CortexClient in detail: the socket may be
\* closed, a reply may bear an error, and the bound of _wait_for_response
\* elapses while its caller sleeps.  A caller in _wait_for_response is in
\* `time.sleep(0.1)` of line 53, the bound not yet over ("wait") or over
\* ("late").  obtained keeps how every call ended, [want, got, out].

\* The socket is closed: by the remote end or by CortexClient.disconnect
CClose ==
    /\ ws[1] = "open"
    /\ ws' = [ws EXCEPT ![1] = "closed"]
    /\ UNCHANGED <<varsApp, nclients, session_id, on_disconnect_callback,
                   data_stream_callback, sock_timeout, dcalls, nfaults,
                   varsThr>>
    /\ UNCHANGED <<varsR, varsD, varsP>>

\* How a call ended that returned no reply
Ended(want, out) ==
    obtained' = Append(obtained, [want |-> want, got |-> 0, out |-> out])

\* _send_request as it would be if it took the id before line 29
CSendRaise_TakesId(s) ==
    /\ spc[s] = "idle"
    /\ ws[1] # "open"
    /\ nreq < MaxReq
    /\ nreq' = nreq + 1
    /\ request_id_counter' = request_id_counter + 1
    /\ Ended(0, "not_connected")
    /\ UNCHANGED <<responses, spc, sframe, srid, wire, pending>>
    /\ UNCHANGED <<varsL, varsD, varsP>>

\* _send_request, cortex_client.py:29-30: the socket is absent or not
\* connected, ConnectionAbortedError is raised.  nreq counts the calls.
CSendRaise(s) ==
    /\ spc[s] = "idle"
    /\ ws[1] # "open"
    /\ nreq < MaxReq
    /\ nreq' = nreq + 1
    /\ Ended(0, "not_connected")
    /\ UNCHANGED <<request_id_counter, responses, spc, sframe, srid,
                   wire, pending>>
    /\ UNCHANGED <<varsL, varsD, varsP>>

\* _send_request, lines 29-38: the socket is connected; the frame is built
\* with the value of the counter as its id and handed to ws.send, which may
\* block
CSendRequest(s) ==
    /\ spc[s] = "idle"
    /\ ws[1] = "open"
    /\ nreq < MaxReq
    /\ nreq' = nreq + 1
    /\ sframe' = [sframe EXCEPT ![s] = [id |-> request_id_counter,
                                        req |-> nreq + 1]]
    /\ spc' = [spc EXCEPT ![s] = "send"]
    /\ UNCHANGED <<request_id_counter, responses, srid, wire, pending,
                   obtained>>
    /\ UNCHANGED <<varsL, varsD, varsP>>

\* line 39: ws.send raises, the socket was closed meanwhile
CSendFail(s) ==
    /\ spc[s] = "send"
    /\ ws[1] # "open"
    /\ spc' = [spc EXCEPT ![s] = "idle"]
    /\ Ended(sframe[s].req, "send_failed")
    /\ UNCHANGED <<request_id_counter, responses, nreq, sframe, srid, wire,
                   pending>>
    /\ UNCHANGED <<varsL, varsD, varsP>>

\* The entry of id in the reply table, as a set
Entry(id) == {e \in responses : e.id = id}

\* _wait_for_response, lines 47-52: the entry e is popped; an error field
\* raises, otherwise the result is returned
Pop(s, e) ==
    /\ responses' = responses \ {e}
    /\ obtained' = Append(obtained,
                          [want |-> sframe[s].req, got |-> e.req,
                           out |-> IF e.error THEN "error" ELSE "result"])
    /\ spc' = [spc EXCEPT ![s] = "idle"]

\* lines 39-42, then _wait_for_response lines 44-53: ws.send returns, the
\* frame is sent and the remote end will answer it, with a result or an
\* error; request_id is read from the counter and the counter incremented;
\* the table is looked up a first time and the caller sleeps.
CSendReturn(s) ==
    /\ spc[s] = "send"
    /\ ws[1] = "open"
    /\ wire' = Append(wire, sframe[s])
    /\ \E error \in BOOLEAN :
          pending' = pending \cup {[id |-> sframe[s].id, req |-> sframe[s].req,
                                    error |-> error]}
    /\ srid' = [srid EXCEPT ![s] = request_id_counter]
    /\ request_id_counter' = request_id_counter + 1
    /\ IF Entry(request_id_counter) # {}
       THEN \E e \in Entry(request_id_counter) : Pop(s, e)
       ELSE /\ spc' = [spc EXCEPT ![s] = "wait"]
            /\ UNCHANGED <<responses, obtained>>
    /\ UNCHANGED <<nreq, sframe>>
    /\ UNCHANGED <<varsL, varsD, varsP>>

\* _receive_loop, lines 59-64: a reply is received and stored
CReply(r) ==
    /\ r \in pending
    /\ ws[1] = "open"
    /\ pending' = pending \ {r}
    /\ responses' = StoreReply(responses, r)
    /\ UNCHANGED <<request_id_counter, nreq, spc, sframe, srid, wire,
                   obtained>>
    /\ UNCHANGED <<varsL, varsD, varsP>>

\* lines 46-52: the sleep is over in time and the id is in the table
CWaitFound(s) ==
    /\ spc[s] = "wait"
    /\ \E e \in Entry(srid[s]) : Pop(s, e)
    /\ UNCHANGED <<request_id_counter, nreq, sframe, srid, wire, pending>>
    /\ UNCHANGED <<varsL, varsD, varsP>>

\* The bound of line 46 elapses while the caller sleeps
CDeadline(s) ==
    /\ spc[s] = "wait"
    /\ spc' = [spc EXCEPT ![s] = "late"]
    /\ UNCHANGED <<request_id_counter, responses, nreq, sframe, srid, wire,
                   pending, obtained>>
    /\ UNCHANGED <<varsL, varsD, varsP>>

\* lines 46, 54: the sleep is over, the test of the loop fails and
\* TimeoutError is raised
CWaitTimeout(s) ==
    /\ spc[s] = "late"
    /\ spc' = [spc EXCEPT ![s] = "idle"]
    /\ Ended(sframe[s].req, "timeout")
    /\ UNCHANGED <<request_id_counter, responses, nreq, sframe, srid, wire,
                   pending>>
    /\ UNCHANGED <<varsL, varsD, varsP>>

NextClient ==
    \/ CClose
    \/ \E s \in Handlers : CSendRaise(s)
    \/ \E s \in Handlers : CSendRequest(s)
    \/ \E s \in Handlers : CSendFail(s)
    \/ \E s \in Handlers : CSendReturn(s)
    \/ \E r \in pending : CReply(r)
    \/ \E s \in Handlers : CWaitFound(s)
    \/ \E s \in Handlers : CDeadline(s)
    \/ \E s \in Handlers : CWaitTimeout(s)

SpecClient == InitConnected /\ [][NextClient]_vars


\* The step in which a call of _send_request by s ends with `out`
Ends(s, out) ==
    /\ Len(obtained') = Len(obtained) + 1
    /\ Last(obtained').out = out
    /\ spc[s] \in {"idle", "send", "wait", "late"}
    /\ spc'[s] = "idle"
    /\ \A u \in Handlers \ {s} : spc'[u] = spc[u]

\* C23: a caller that finds no live connection (socket absent or closed)
\* sends nothing and goes no further than the test: it stays where it was,
\* and the call that fails with "not connected" leaves the wire, the request
\* counter, the reply table and the frames of the callers as they were; a
\* call fails so only when the socket is not connected.
C23_SendFailsFast ==
    [][\A s \in Handlers :
          /\ (spc[s] = "idle" /\ ws[1] # "open") =>
                (spc'[s] = "idle" /\ wire' = wire)
          /\ (spc[s] = "idle" /\ Ends(s, "not_connected")) =>
                /\ ws[1] # "open"
                /\ UNCHANGED <<request_id_counter, responses, wire, pending,
                               sframe, srid>>]_vars

\* A call failed on the closed socket after frames were sent and a reply
\* stored
C23_Witness ==
    /\ ws[1] = "closed"
    /\ Len(obtained) >= 1
    /\ Last(obtained).out = "not_connected"
    /\ Len(wire) >= 1
    /\ responses # {}
    /\ request_id_counter = Len(wire) + 1


\* C24: a wait returns the result when a reply without an error field is
\* stored under its id, and fails with the error when the stored reply bears
\* one, the entry being removed from the table in both; it fails with the
\* timeout only when no reply was stored under its id before the bound
\* elapsed.
C24_AwaitOutcomes ==
    [][\A s \in Handlers :
          /\ Ends(s, "result") =>
                \E e \in Entry(srid'[s]) :
                    ~e.error /\ responses' = responses \ {e}
          /\ Ends(s, "error") =>
                \E e \in Entry(srid'[s]) :
                    e.error /\ responses' = responses \ {e}
          /\ (spc[s] = "wait" /\ spc'[s] = "late") =>
                Entry(srid[s]) = {}]_vars

\* ------------------------------------------------------------ SpecScore
\* get_score_from_ratio over the mean ratios a window can produce: zero,
\* ratios at and below the floor of 0.01, ratios around the baseline, and
\* ratios far above it.  A ratio is a pair <<numerator, denominator>>.
WindowRatios ==
    {<<n, d>> : n \in {0, 1, 2, 3, 5, 7, 10, 25, 100, 1000, 2000, 200000},
                d \in {1, 2, 3, 7, 100, 1000}}

\* scoring_server.py:134: score = get_score_from_ratio(average_ratio)
ScoreWindow ==
    /\ new_score = -1
    /\ new_score' = get_score_from_ratio(average_ratio)
    /\ UNCHANGED <<message, handled, average_ratio>>
    /\ UNCHANGED <<varsL, varsR, varsD>>

\* scoring_server.py:112-133: the next window, with its mean ratio
NextWindow ==
    /\ new_score # -1
    /\ average_ratio' \in WindowRatios
    /\ new_score' = -1
    /\ UNCHANGED <<message, handled>>
    /\ UNCHANGED <<varsL, varsR, varsD>>

NextScore == ScoreWindow \/ NextWindow

\* The first window has the ratio of InitP
SpecScore == Init /\ [][NextScore]_vars

\* C25: the score computed for a window is an integer from 0 to 100, for
\* every mean ratio from zero up, and for a ratio of at most 0.01 it is the
\* score of 0.01.
C25_ScoreInRange ==
    new_score # -1 =>
        /\ new_score \in 0..100
        /\ average_ratio[1] * 100 <= average_ratio[2] =>
              new_score = get_score_from_ratio(<<1, 100>>)

\* Scores computed: of the ratio zero, of a ratio far above the baseline, of
\* a ratio near the baseline
C25_Witness ==
    /\ new_score # -1
    /\ \/ average_ratio = <<0, 1>> /\ new_score = 0
       \/ average_ratio = <<200000, 1>> /\ new_score = 100
       \/ average_ratio = <<25, 2>> /\ new_score = 50


\* C26: when reset_recording or reset_connection returns, the worker it
\* waited for has ended, and no worker that was alive when the reset was
\* called is alive after it; stated for the resets that return in the step
\* in which they are called, where the workers alive before the step are
\* those started before the call.
C26_ResetsEndWorkers ==
    [][\A t \in HThreads \cup TmThreads :
          (ResetRecordingReturns(t) \/ ResetConnectionReturns(t)) =>
             /\ \A k \in Recs : joining[t] = k => pc'[W(k)] \in {"none", "done"}
             /\ (pc[t] # "rr_join" /\ pc[t] \notin RcCalls) =>
                   \A k \in Recs : Alive(k) => pc'[W(k)] = "done"]_vars


\* C27: the id _send_request returns to its caller, which the caller then
\* waits for, is the id of the frame that call sent.
C27_ReturnedIdIsFrameId ==
    \A s \in Handlers : spc[s] = "wait" => srid[s] = sframe[s].id


C29_TimerResetsOwnRecording ==
    [][\A k \in Recs :
          (/\ pc[Tm(k)] = "rr_join" /\ pc'[Tm(k)] # "rr_join"
           /\ is_recording /\ processing_thread # 0
           /\ processing_thread # k) =>
             /\ UNCHANGED <<is_recording, processing_thread, session_timer,
                            scores, data_buffer>>
             /\ \A j \in Recs \ {k} : pc'[Tm(j)] = pc[Tm(j)]]_vars


\* C30: recording_ended and recording_cancelled are not both emitted for a
\* recording (one recording is started in a run of the data path).
C30_OneTerminalNotice ==
    ~(/\ Notices(emitted, "recording_ended") # {}
      /\ Notices(emitted, "recording_cancelled") # {})


\* C31: recording_started is emitted before any new_score and before
\* recording_ended; no new_score is emitted after recording_ended or
\* recording_cancelled; and the average recording_ended carries is that of
\* all the scores emitted (one recording is started in a run of the data
\* path).
C31_NoticesInOrder ==
    LET started == Notices(emitted, "recording_started")
        scored  == Notices(emitted, "new_score")
        ended   == Notices(emitted, "recording_ended")
        final   == ended \cup Notices(emitted, "recording_cancelled")
        IsScore(e) == e.ev = "new_score"
        sc      == SelectSeq(emitted, IsScore)
    IN  /\ \A i \in scored \cup ended : \E j \in started : j < i
        /\ \A i \in scored : \A j \in final : i < j
        /\ \A j \in ended :
              emitted[j].val = avg_score([i \in DOMAIN sc |-> sc[i].val])


\* C32: a step of the read loop of a client, which runs its disconnect
\* callback and the reset_connection of it, leaves alone a client installed
\* later: that client stays the client in use, its socket stays as it is,
\* and the fields of the recording are not changed.
C32_OldLoopSparesNewClient ==
    [][\A c \in Clients :
          (/\ cortex_client > c
           /\ pc[RL(c)] \in {"rl_recv", "rc_join", "rc_closing"}
           /\ pc'[RL(c)] # pc[RL(c)]) =>
             /\ ws'[cortex_client] = ws[cortex_client]
             /\ UNCHANGED varsApp]_vars


\* C33: the disconnect callback is called, server_disconnected emitted and
\* reset_connection entered by the read loop, only for a socket that the
\* program has not closed itself: not for one closed by disconnect().
C33_NoNoticeOnOwnClose ==
    [][\A c \in Clients : dcalls'[c] > dcalls[c] => ws[c] # "closed"]_vars

=============================================================================
